---- MODULE Spec2Model ----
(***************************************************************************)
(* The concurrent collection pipeline of android-monitor.py: the collector *)
(* threads (LogcatMonitor, AppMonitor and the five polling monitors), the  *)
(* shared sqlite connection of DatabaseManager they write through, the     *)
(* thread that calls start() and stop() on them (AndroidMonitor), and the  *)
(* computations of NetworkMonitor._check_thresholds and                    *)
(* FilesystemMonitor._detect_changes on their inputs.                      *)
(***************************************************************************)
EXTENDS Integers, Sequences, FiniteSets, TLC

\* ------------------------------------------------------------------ bounds
\* Records (log entries, events, samples) all collectors together collect.
MaxRecords == 3
\* Failures the environment injects (store errors, spawn and collection errors,
\* lines with an invalid date).
MaxFaults == 1
\* The same two budgets in the runs with two collectors side by side.
PairRecords == 3
PairFaults == 1
\* Samples one tick of a pull-style collector yields (one per interface).
MaxStats == 2
\* Seconds that pass in one step of the clock.
TickSeconds == 3
\* Timestamps of network samples, in seconds.
MaxTime == 2
\* Byte counters of network samples, in halves of the threshold volume.
MaxFactor == 3
\* Records in one insert_batch call, and rows a table is followed up to.
MaxBatch == 2
MaxTable == 2
\* Rows of the table the queries are followed on.
MaxRows == 2
\* Process stats in one tick of the process collector.
MaxProcs == 2
\* The capacity of the logcat ring buffer (1000 by default) and the parsed
\* lines it is followed over.
logcat_buffer_size == 2
MaxParsed == 4
\* The largest count asked of get_recent_logs.
MaxCount == 3
\* App events parsed from the lines of the app collector.
MaxAppEvents == 2
\* start() calls on one collector, and the inserts its threads make.
MaxStarts == 2
MaxWrites == 3
\* Paths under the watched directories.
MaxPaths == 3
\* The two budgets in the runs of AndroidMonitor.run().
OrchRecords == 1
OrchFaults == 1

\* ------------------------------------------------------- program constants
LogcatFlushSize == 100
AppFlushSize == 50
FlushLatency == 5
\* alert_network_threshold, in MB/s, and the bytes of one MB.
NetThreshold == 100
MB == 1048576

\* ------------------------------------------------------------------- names
Modules == {"logcat", "network", "process", "memory", "battery", "filesystem",
            "apps"}
PushStyle == {"logcat", "apps"}
PullStyle == {"network", "process", "memory", "battery", "filesystem"}

\* The order of AndroidMonitor.monitors, a dict filled by _init_monitors.
MonitorOrder == <<"logcat", "network", "process", "memory", "battery",
                 "filesystem", "apps">>

\* The configurations (sets of enabled modules) the runs start from: one
\* collector alone, or a push-style and a pull-style collector side by side.
Configs == {{c} : c \in Modules}
PairConfigs == {{"logcat", "network"}}

TableOf(c) ==
    CASE c = "logcat" -> "logcat_entries"
      [] c = "apps" -> "app_events"
      [] c = "network" -> "network_stats"
      [] c = "process" -> "process_stats"
      [] c = "memory" -> "memory_stats"
      [] c = "battery" -> "battery_stats"
      [] c = "filesystem" -> "filesystem_events"

\* The samples one collection can yield: NetworkMonitor collects a list with
\* one sample per interface, ProcessMonitor one per process, FilesystemMonitor
\* one event per change; MemoryMonitor and BatteryMonitor one dict, never
\* empty.
StatCounts(c) ==
    CASE c \in {"memory", "battery"} -> {1}
      [] c = "process" -> {0, 1}
      [] OTHER -> 0..MaxStats

\* Threshold tests with one on the size of a changed file as well.
Kinds_fs(c) ==
    CASE c = "network" -> <<"rate">>
      [] c = "process" -> <<"cpu", "memory">>
      [] c = "memory" -> <<"percent">>
      [] c = "battery" -> <<"level">>
      [] c = "filesystem" -> <<"size">>
      [] OTHER -> <<>>

\* The threshold tests _check_thresholds makes on one sample, in order.
Kinds(c) ==
    CASE c = "network" -> <<"rate">>
      [] c = "process" -> <<"cpu", "memory">>
      [] c = "memory" -> <<"percent">>
      [] c = "battery" -> <<"level">>
      [] OTHER -> <<>>

\* The tests of _check_thresholds on the samples ids, sample by sample.
RECURSIVE ChecksOf(_, _)
ChecksOf(c, ids) ==
    IF ids = <<>> THEN <<>>
    ELSE [k \in 1..Len(Kinds(c)) |-> [rec |-> Head(ids), kind |-> Kinds(c)[k]]]
         \o ChecksOf(c, Tail(ids))

FlushSize(c) == IF c = "logcat" THEN LogcatFlushSize ELSE AppFlushSize

\* What readline can return to each push-style loop, besides end of file: a
\* line the parser turns into a record, a line matching no pattern, and (for
\* logcat, which rebuilds a datetime from the line) a line that matches the
\* pattern but whose month/day/time fields are no valid date.
LineKinds(c) == IF c = "logcat" THEN {"valid", "nomatch", "baddate"}
                ELSE {"valid", "nomatch"}

NoIns == [rows |-> <<>>, i |-> 0, ret |-> "none"]

VARIABLES
    enabled,    \* AndroidMonitor.monitors: the modules a collector exists for
    running,    \* c.running
    pc,         \* where c's loop thread is ("none": c.thread is None)
    process,    \* the logcat child process: "none", "alive", "dead"
    batch,      \* the loop's pending batch (push-style)
    age,        \* time.time() - last_flush, in seconds (no longer counted once above FlushLatency)
    line,       \* what the loop's last readline returned
    exc,        \* the last error the loop logged (or died of)
    stats,      \* the threshold tests of this tick still to be made
    ins,        \* the insert_batch call the loop is in: rows, rows executed, return point
    ncalls,     \* insert_batch calls c has made
    collected,  \* records collected so far, by all collectors
    faults,     \* failures injected so far
    conn,       \* rows inserted on the shared connection and not yet committed
    disk,       \* committed rows, in rowid order
    phase,      \* where the caller is with c: "new", "started", in stop(), "stopped"
    returned,   \* history: the insert_batch calls that returned or raised
    parsed,     \* history: the records c's loop thread has put in its batch
    breach,     \* the tests (sample, kind) of c's tick whose value is over the threshold
    detailed,   \* config.memory_detailed, with a readable /proc/meminfo
    orch,       \* AndroidMonitor: where the main thread is in run(), start(), stop()
    net,        \* NetworkMonitor._check_thresholds on given samples
    fs,         \* FilesystemMonitor._detect_changes on given snapshots
    db,         \* DatabaseManager.insert_batch on given batches of one table
    qry,        \* MonitorQuery: a table and the last query made on it
    thr,        \* ProcessMonitor / BatteryMonitor._check_thresholds on given samples
    ring,       \* LogcatMonitor.buffer and the entries appended to it
    log,        \* LogcatMonitor._parse_logcat_line on given lines
    app,        \* AppMonitor._parse_app_event on given lines, and the loop's batch
    prog,       \* main(): the arguments, the config built from them and the AndroidMonitor
    dup,        \* NetworkMonitor with every loop thread its start() calls launched
    fsloop,     \* FilesystemMonitor._monitor_loop: the last tick's insert
    recent      \* LogcatMonitor.get_recent_logs: the last call

vars == <<enabled, running, pc, process, batch, age, line, exc, stats, ins,
          ncalls, collected, faults, conn, disk, phase, returned, parsed,
          breach, detailed, orch, net, fs, db, qry, thr, ring, log,
          app, prog, dup, fsloop, recent>>

\* The functions that are followed on their own, apart from the threads.
apart == <<db, qry, thr, ring, log, app, prog, dup, fsloop, recent>>

\* What the collector threads and the store never touch.
elsewhere == <<detailed, orch, net, fs, apart>>

\* The main thread before AndroidMonitor.run() ("off": the collectors are
\* driven directly by Start and Stop).
NoOrch == [pc |-> "off", i |-> 1, by |-> "none", sig |-> "none", stops |-> 0,
           closed |-> 0, failed |-> {}]

\* No sample checked yet: self.last_stats is empty. last_stats holds the entry
\* of one interface (empty or one sample); prev is what it held before the last
\* call; rate and alerts are what the last call computed and raised.
NoNet == [last_stats |-> <<>>, prev |-> <<>>, rate |-> <<>>, alerts |-> <<>>]

\* No snapshot compared yet: self.file_stats is empty. A snapshot maps the
\* paths it holds to their mtime; prev is what file_stats held before the last
\* call, scanned the snapshot the last call took, events what it returned.
NoFs == [file_stats |-> <<>>, prev |-> <<>>, scanned |-> <<>>, events |-> <<>>]

\* No tick of the filesystem loop yet.
NoFsLoop == [called |-> FALSE, done |-> 0, raised |-> FALSE]

\* An empty table and no insert_batch call yet: rows are the rows of the
\* table in rowid order, data the batch of the last call and before the
\* number of rows the table held when it was made.
NoDb == [rows |-> <<>>, before |-> 0, data |-> <<>>]

\* An empty table and no query yet.
NoQry == [rows |-> <<>>, args |-> <<>>, result |-> <<>>]

\* No sample checked yet: stats are the samples of the last tick, rows the
\* rows it inserted in the collector's table and alerts the alert rows.
NoThr == [module |-> "none", stats |-> <<>>, rows |-> <<>>, alerts |-> <<>>]

\* An empty deque: nothing parsed yet.
NoRing == [buffer |-> <<>>, batch |-> <<>>, parsed |-> <<>>, stored |-> <<>>]

\* get_recent_logs not called yet: count is the argument of the last call,
\* buffer the ring buffer it read and result what it returned.
NoRecent == [called |-> FALSE, count |-> 0, buffer |-> <<>>, result |-> <<>>]

\* No line parsed yet: line is the last line given to _parse_logcat_line (empty
\* before the first), now
\* the year of datetime.now(), entry what it returned (empty for None) and
\* raised whether it raised.
NoLog == [line |-> <<>>, now |-> 0, entry |-> <<>>, raised |-> FALSE]

\* No line read yet: line is the last line read (the set of patterns found
\* in it), event what _parse_app_event returned for it (empty for None),
\* batch the pending batch, stored the events inserted and before the events
\* stored or pending when the line was read.
NoApp == [line |-> {}, event |-> <<>>, batch |-> <<>>, stored |-> <<>>,
          before |-> <<>>]

\* main() not yet entered: pc is where main() is, disable the modules named
\* by --disable-<module> flags, preset the --preset argument, file the
\* enable flags a --config file sets to true (empty: no file given), config
\* the modules enabled in main's local config, monitor_config the modules
\* enabled in monitor.config, monitors the keys of monitor.monitors and
\* started the monitors whose start() was called.
NoProg == [pc |-> "parse", disable |-> {}, preset |-> "none", file |-> <<>>,
           config |-> {}, monitor_config |-> {}, monitors |-> {},
           started |-> {}]

\* A collector just constructed: running is self.running, threads where each
\* loop thread ever launched is, thread the index of self.thread (0: None),
\* caller where the caller is ("idle", "join" inside stop(), "stopped" after
\* it), writes the insert_batch calls made and late those made after a
\* stop() had returned and before the next start().
NoDup == [running |-> FALSE, threads |-> <<>>, thread |-> 0,
          caller |-> "idle", writes |-> 0, late |-> 0]

RecordBound ==
    IF orch.pc # "off" THEN OrchRecords
    ELSE IF Cardinality(enabled) = 1 THEN MaxRecords ELSE PairRecords
FaultBound ==
    IF orch.pc # "off" THEN OrchFaults
    ELSE IF Cardinality(enabled) = 1 THEN MaxFaults ELSE PairFaults

Range(s) == {s[i] : i \in 1..Len(s)}

Row(c, tbl, call, rec) == [tbl |-> tbl, by |-> c, call |-> call, rec |-> rec]

Alive(c) == pc[c] \notin {"none", "done"}

Fresh ==
    /\ running = [c \in Modules |-> FALSE]
    /\ pc = [c \in Modules |-> "none"]
    /\ process = [c \in Modules |-> "none"]
    /\ batch = [c \in Modules |-> <<>>]
    /\ age = [c \in Modules |-> 0]
    /\ line = [c \in Modules |-> "none"]
    /\ exc = [c \in Modules |-> "none"]
    /\ stats = [c \in Modules |-> <<>>]
    /\ ins = [c \in Modules |-> NoIns]
    /\ ncalls = [c \in Modules |-> 0]
    /\ collected = 0
    /\ faults = 0
    /\ conn = <<>>
    /\ disk = <<>>
    /\ phase = [c \in Modules |-> "new"]
    /\ returned = {}
    /\ parsed = [c \in Modules |-> {}]
    /\ breach = [c \in Modules |-> {}]
    /\ net = NoNet
    /\ fs = NoFs
    /\ db = NoDb
    /\ qry = NoQry
    /\ thr = NoThr
    /\ ring = NoRing
    /\ log = NoLog
    /\ app = NoApp
    /\ prog = NoProg
    /\ dup = NoDup
    /\ fsloop = NoFsLoop
    /\ recent = NoRecent

\* memory_detailed is on by default; the meminfo fields are there when
\* /proc/meminfo can be read.
Init ==
    /\ enabled \in Configs
    /\ detailed \in (IF "memory" \in enabled THEN BOOLEAN ELSE {FALSE})
    /\ orch = NoOrch
    /\ Fresh

InitPair ==
    /\ enabled \in PairConfigs
    /\ detailed = FALSE
    /\ orch = NoOrch
    /\ Fresh

\* ---------------------------------------------------------- DatabaseManager

\* A terminate() that leaves the process running.
terminate_noop(p) == p

\* Popen.terminate() on whatever c's process variable holds.
terminate(p) == IF p = "alive" THEN "dead" ELSE p

\* An exception that ends the loop of every collector.
raise_fatal(c, e) ==
    /\ exc' = [exc EXCEPT ![c] = e]
    /\ ins' = [ins EXCEPT ![c] = NoIns]
    /\ stats' = [stats EXCEPT ![c] = <<>>]
    /\ batch' = [batch EXCEPT ![c] = <<>>]
    /\ pc' = [pc EXCEPT ![c] = "done"]
    /\ process' = [process EXCEPT ![c] = terminate(@)]

\* An exception that reaches the handler of c's loop. In the push-style loops
\* the try block encloses the whole for loop: the handler logs, the finally
\* clause terminates the child process and the thread ends. In the pull-style
\* loops the try block is inside the while loop: the handler logs and sleeps.
raise(c, e) ==
    /\ exc' = [exc EXCEPT ![c] = e]
    /\ ins' = [ins EXCEPT ![c] = NoIns]
    /\ stats' = [stats EXCEPT ![c] = <<>>]
    /\ batch' = [batch EXCEPT ![c] = <<>>]
    /\ IF c \in PushStyle
         THEN /\ pc' = [pc EXCEPT ![c] = "done"]
              /\ process' = [process EXCEPT ![c] = terminate(@)]
         ELSE /\ pc' = [pc EXCEPT ![c] = "sleep"]
              /\ UNCHANGED process

\* An insert_batch that binds the records last to first.
insert_batch_reversed(c, tbl, data, ret) ==
    /\ data # <<>>
    /\ ncalls' = [ncalls EXCEPT ![c] = @ + 1]
    /\ ins' = [ins EXCEPT ![c] =
                 [rows |-> [i \in 1..Len(data) |->
                              Row(c, tbl, ncalls[c] + 1, data[Len(data) + 1 - i])],
                  i |-> 0, ret |-> ret]]
    /\ pc' = [pc EXCEPT ![c] = "exec"]

\* insert_batch(table, data) entered by c's loop; ret is where the loop goes on
\* when the call returns. (An empty batch returns at once; no caller passes one.)
insert_batch(c, tbl, data, ret) ==
    /\ data # <<>>
    /\ ncalls' = [ncalls EXCEPT ![c] = @ + 1]
    /\ ins' = [ins EXCEPT ![c] =
                 [rows |-> [i \in 1..Len(data) |-> Row(c, tbl, ncalls[c] + 1, data[i])],
                  i |-> 0, ret |-> ret]]
    /\ pc' = [pc EXCEPT ![c] = "exec"]

\* The loop of c goes on after its insert_batch call returned.
resume(c) ==
    CASE ins[c].ret = "read" ->
           /\ pc' = [pc EXCEPT ![c] = "read"]
           /\ batch' = [batch EXCEPT ![c] = <<>>]
           /\ age' = [age EXCEPT ![c] = 0]
           /\ UNCHANGED <<process, stats>>
      [] ins[c].ret = "exit" ->
           /\ pc' = [pc EXCEPT ![c] = "done"]
           /\ batch' = [batch EXCEPT ![c] = <<>>]
           /\ process' = [process EXCEPT ![c] = terminate(@)]
           /\ UNCHANGED <<age, stats>>
      [] ins[c].ret = "thresh" ->
           /\ pc' = [pc EXCEPT ![c] = "thresh"]
           /\ UNCHANGED <<batch, age, process, stats>>
      [] ins[c].ret = "sleep" ->
           /\ pc' = [pc EXCEPT ![c] = "sleep"]
           /\ UNCHANGED <<batch, age, process, stats>>

\* The INSERT statement, built from the keys of the first record, names only
\* columns of the table. A memory sample with the meminfo_* fields of
\* _parse_meminfo names columns memory_stats does not have.
Storable(c) == ~(detailed /\ ins[c].rows[1].tbl = "memory_stats")

\* executemany: one more row of the batch is inserted in the connection's open
\* transaction.
executemany_row(c) ==
    /\ pc[c] = "exec"
    /\ Storable(c)
    /\ ins[c].i < Len(ins[c].rows)
    /\ conn' = Append(conn, ins[c].rows[ins[c].i + 1])
    /\ ins' = [ins EXCEPT ![c].i = @ + 1]
    /\ UNCHANGED <<enabled, running, pc, process, batch, age, line, exc, stats,
                   ncalls, collected, faults, disk, phase,
                   returned>>
    /\ UNCHANGED <<parsed, breach, elsewhere>>

\* executemany raises (a row is rejected, an I/O error, or the statement does
\* not compile and no row is inserted): the rows inserted so far stay in the
\* open transaction, no rollback is issued.
executemany_fail(c) ==
    /\ pc[c] = "exec"
    /\ ins[c].i < Len(ins[c].rows)
    /\ IF Storable(c)
         THEN faults < FaultBound /\ faults' = faults + 1
         ELSE faults' = faults
    /\ returned' = returned \cup {[by |-> c, call |-> ncalls[c],
                                    rows |-> ins[c].rows, done |-> ins[c].i,
                                    ret |-> ins[c].ret,
                                    ok |-> FALSE]}
    /\ raise(c, "store")
    /\ UNCHANGED <<enabled, running, age, line, ncalls, collected, conn, disk,
                   phase>>
    /\ UNCHANGED <<parsed, breach, elsewhere>>

\* A commit that leaves only its own transaction in the table.
conn_commit_replace(committed, open) == open

\* conn.commit(): the rows of the open transaction follow the committed ones.
conn_commit(committed, open) == committed \o open

\* conn.commit(): everything in the connection's open transaction is committed.
commit(c) ==
    /\ pc[c] = "exec"
    /\ ins[c].i = Len(ins[c].rows)
    /\ disk' = conn_commit(disk, conn)
    /\ conn' = <<>>
    /\ ins' = [ins EXCEPT ![c] = NoIns]
    /\ returned' = returned \cup {[by |-> c, call |-> ncalls[c],
                                    rows |-> ins[c].rows, done |-> ins[c].i,
                                    ret |-> ins[c].ret,
                                    ok |-> TRUE]}
    /\ resume(c)
    /\ UNCHANGED <<enabled, running, line, exc, ncalls, collected, faults, phase>>
    /\ UNCHANGED <<parsed, breach, elsewhere>>

\* conn.commit() raises (database locked, I/O error): the transaction stays open.
commit_fail(c) ==
    /\ pc[c] = "exec"
    /\ ins[c].i = Len(ins[c].rows)
    /\ faults < FaultBound
    /\ faults' = faults + 1
    /\ returned' = returned \cup {[by |-> c, call |-> ncalls[c],
                                    rows |-> ins[c].rows, done |-> ins[c].i,
                                    ret |-> ins[c].ret,
                                    ok |-> FALSE]}
    /\ raise(c, "store")
    /\ UNCHANGED <<enabled, running, age, line, ncalls, collected, conn, disk,
                   phase>>
    /\ UNCHANGED <<parsed, breach, elsewhere>>

\* ------------------------------------------- LogcatMonitor and AppMonitor

\* start(): running is set and a new loop thread is launched; the thread has
\* read no line and logged no error yet.
start(c) ==
    /\ running' = [running EXCEPT ![c] = TRUE]
    /\ pc' = [pc EXCEPT ![c] = IF c \in PushStyle THEN "popen" ELSE "test"]
    /\ line' = [line EXCEPT ![c] = "none"]
    /\ exc' = [exc EXCEPT ![c] = "none"]
    /\ parsed' = [parsed EXCEPT ![c] = {}]

\* stop() that clears the flag of every collector.
stop_signal_all(c) ==
    /\ running' = [x \in Modules |-> FALSE]
    /\ process' = [process EXCEPT ![c] = IF c = "logcat" THEN terminate(@) ELSE @]

\* stop() that flips the flag instead of clearing it.
stop_signal_toggle(c) ==
    /\ running' = [running EXCEPT ![c] = ~@]
    /\ process' = [process EXCEPT ![c] = IF c = "logcat" THEN terminate(@) ELSE @]

\* stop(), up to the join: running is cleared and LogcatMonitor terminates the
\* child process it knows of (self.process; AppMonitor keeps the process in a
\* local of the loop and terminates nothing here).
stop_signal(c) ==
    /\ running' = [running EXCEPT ![c] = FALSE]
    /\ process' = [process EXCEPT ![c] = IF c = "logcat" THEN terminate(@) ELSE @]

\* stop() without the join.
stop_joined_nowait(c) == TRUE

\* stop(), the join: returns when there is no thread or the thread has ended.
stop_joined(c) == ~Alive(c)

\* subprocess.Popen succeeds: the loop starts with an empty batch.
monitor_loop_popen(c) ==
    /\ c \in PushStyle
    /\ pc[c] = "popen"
    /\ process' = [process EXCEPT ![c] = "alive"]
    /\ batch' = [batch EXCEPT ![c] = <<>>]
    /\ age' = [age EXCEPT ![c] = 0]
    /\ pc' = [pc EXCEPT ![c] = "read"]
    /\ UNCHANGED <<enabled, running, line, exc, stats, ins, ncalls, collected,
                   faults, conn, disk, phase,
                   returned>>
    /\ UNCHANGED <<parsed, breach, elsewhere>>

\* subprocess.Popen raises (no logcat command). LogcatMonitor logs and its
\* finally clause terminates self.process if there is one; in AppMonitor the
\* finally clause reads the local `process`, which was never bound, and the
\* thread dies of that error.
monitor_loop_popen_fail(c) ==
    /\ c \in PushStyle
    /\ pc[c] = "popen"
    /\ faults < FaultBound
    /\ faults' = faults + 1
    /\ exc' = [exc EXCEPT ![c] = IF c = "logcat" THEN "spawn" ELSE "unbound"]
    /\ process' = [process EXCEPT ![c] = IF c = "logcat" THEN terminate(@) ELSE "none"]
    /\ batch' = [batch EXCEPT ![c] = <<>>]
    /\ pc' = [pc EXCEPT ![c] = "done"]
    /\ UNCHANGED <<enabled, running, age, line, stats, ins, ncalls, collected,
                   conn, disk, phase,
                   returned>>
    /\ UNCHANGED <<parsed, breach, elsewhere>>

\* The for loop is left (break, or readline returned ''): the final flush of a
\* non-empty batch, then the finally clause.
final_flush(c) ==
    IF batch[c] # <<>>
      THEN /\ insert_batch(c, TableOf(c), batch[c], "exit")
           /\ UNCHANGED <<process, batch, age, exc, stats, collected, faults>>
      ELSE /\ pc' = [pc EXCEPT ![c] = "done"]
           /\ process' = [process EXCEPT ![c] = terminate(@)]
           /\ UNCHANGED <<batch, age, exc, stats, ins, ncalls, collected, faults>>

\* readline returns a line of kind k, and the loop body runs up to its next
\* call of insert_batch or readline.
monitor_loop_readline(c, k) ==
    /\ c \in PushStyle
    /\ pc[c] = "read"
    /\ process[c] = "alive"
    /\ line' = [line EXCEPT ![c] = k]
    /\ IF ~running[c]
         THEN final_flush(c) /\ UNCHANGED parsed
         ELSE CASE k = "nomatch" ->
                     UNCHANGED <<pc, process, batch, age, exc, stats, ins, ncalls,
                                 collected, faults, parsed>>
                [] k = "baddate" ->
                     /\ faults < FaultBound
                     /\ faults' = faults + 1
                     /\ raise(c, "parse")
                     /\ UNCHANGED <<age, ncalls, collected, parsed>>
                [] k = "valid" ->
                     /\ collected < RecordBound
                     /\ collected' = collected + 1
                     /\ parsed' = [parsed EXCEPT ![c] = @ \cup {collected + 1}]
                     /\ IF Len(batch[c]) + 1 >= FlushSize(c) \/ age[c] > FlushLatency
                          THEN /\ insert_batch(c, TableOf(c),
                                               Append(batch[c], collected + 1), "read")
                               /\ batch' = [batch EXCEPT ![c] = Append(@, collected + 1)]
                               /\ UNCHANGED <<process, age, exc, stats, faults>>
                          ELSE /\ batch' = [batch EXCEPT ![c] = Append(@, collected + 1)]
                               /\ UNCHANGED <<pc, process, age, exc, stats, ins, ncalls,
                                              faults>>
    /\ UNCHANGED <<enabled, running, conn, disk, phase, returned>>
    /\ UNCHANGED <<breach, elsewhere>>

\* readline returns '': the child process has exited or was terminated.
monitor_loop_eof(c) ==
    /\ c \in PushStyle
    /\ pc[c] = "read"
    /\ process[c] = "dead"
    /\ line' = [line EXCEPT ![c] = "eof"]
    /\ final_flush(c)
    /\ UNCHANGED <<enabled, running, conn, disk, phase,
                   returned>>
    /\ UNCHANGED <<parsed, breach, elsewhere>>

\* The child process exits on its own.
source_exit(c) ==
    /\ c \in PushStyle
    /\ process[c] = "alive"
    /\ pc[c] = "read"
    /\ process' = [process EXCEPT ![c] = "dead"]
    /\ UNCHANGED <<enabled, running, pc, batch, age, line, exc, stats, ins, ncalls,
                   collected, faults, conn, disk, phase,
                   returned>>
    /\ UNCHANGED <<parsed, breach, elsewhere>>

\* Time passes while the loop waits in readline.
tick(c) ==
    /\ c \in PushStyle
    /\ pc[c] = "read"
    /\ age[c] <= FlushLatency
    /\ age' = [age EXCEPT ![c] = @ + TickSeconds]
    /\ UNCHANGED <<enabled, running, pc, process, batch, line, exc, stats, ins,
                   ncalls, collected, faults, conn, disk, phase,
                   returned>>
    /\ UNCHANGED <<parsed, breach, elsewhere>>

\* ------------------------------------------ NetworkMonitor and MemoryMonitor

\* A loop that never looks at self.running.
monitor_loop_test_blind(c) ==
    /\ c \in PullStyle
    /\ pc[c] = "test"
    /\ pc' = [pc EXCEPT ![c] = "collect"]
    /\ UNCHANGED <<enabled, running, process, batch, age, line, exc, stats, ins,
                   ncalls, collected, faults, conn, disk, phase,
                   returned>>
    /\ UNCHANGED <<parsed, breach, elsewhere>>

\* while self.running: (a further tick begins only while the run has records
\* left for the samples the tick must yield)
monitor_loop_test(c) ==
    /\ c \in PullStyle
    /\ pc[c] = "test"
    /\ running[c] => \E n \in StatCounts(c) : collected + n <= RecordBound
    /\ pc' = [pc EXCEPT ![c] = IF running[c] THEN "collect" ELSE "done"]
    /\ UNCHANGED <<enabled, running, process, batch, age, line, exc, stats, ins,
                   ncalls, collected, faults, conn, disk, phase,
                   returned>>
    /\ UNCHANGED <<parsed, breach, elsewhere>>

\* A tick that checks the thresholds of its samples without inserting them.
monitor_loop_collect_unsaved(c, n, hot) ==
    /\ c \in PullStyle
    /\ pc[c] = "collect"
    /\ collected + n <= RecordBound
    /\ collected' = collected + n
    /\ hot \subseteq Range(ChecksOf(c, [i \in 1..n |-> collected + i]))
    /\ breach' = [breach EXCEPT ![c] = hot]
    /\ stats' = [stats EXCEPT ![c] =
                    ChecksOf(c, [i \in 1..n |-> collected + i])]
    /\ pc' = [pc EXCEPT ![c] = IF n > 0 /\ Kinds(c) # <<>> THEN "thresh"
                               ELSE "sleep"]
    /\ UNCHANGED <<ins, ncalls>>
    /\ UNCHANGED <<enabled, running, process, batch, age, line, exc, faults, conn,
                   disk, phase,
                   returned>>
    /\ UNCHANGED <<parsed, elsewhere>>

\* stats = self._collect_network_stats() (or the collection of the other
\* monitors): n samples, of which the tests in hot are over their threshold;
\* with any sample, the call of insert_batch, else the sleep.
\* FilesystemMonitor has no thresholds and sleeps after the insert.
monitor_loop_collect(c, n, hot) ==
    /\ c \in PullStyle
    /\ pc[c] = "collect"
    /\ collected + n <= RecordBound
    /\ collected' = collected + n
    /\ hot \subseteq Range(ChecksOf(c, [i \in 1..n |-> collected + i]))
    /\ breach' = [breach EXCEPT ![c] = hot]
    /\ IF n > 0
         THEN /\ stats' = [stats EXCEPT ![c] =
                              ChecksOf(c, [i \in 1..n |-> collected + i])]
              /\ insert_batch(c, TableOf(c), [i \in 1..n |-> collected + i],
                              IF Kinds(c) = <<>> THEN "sleep" ELSE "thresh")
         ELSE /\ pc' = [pc EXCEPT ![c] = "sleep"]
              /\ UNCHANGED <<stats, ins, ncalls>>
    /\ UNCHANGED <<enabled, running, process, batch, age, line, exc, faults, conn,
                   disk, phase,
                   returned>>
    /\ UNCHANGED <<parsed, elsewhere>>

\* The collection raises (psutil fails).
monitor_loop_collect_fail(c) ==
    /\ c \in PullStyle
    /\ pc[c] = "collect"
    /\ faults < FaultBound
    /\ faults' = faults + 1
    /\ raise(c, "collect")
    /\ UNCHANGED <<enabled, running, age, line, ncalls, collected, conn, disk,
                   phase, returned>>
    /\ UNCHANGED <<parsed, breach, elsewhere>>

\* _check_thresholds, one test of one sample: over the threshold, an alert
\* row is written with insert_batch('alerts', [alert]). (NetworkMonitor needs
\* an earlier sample of the interface to compute a rate; the model lets any
\* sample be over the threshold.)
check_thresholds(c, over) ==
    /\ c \in PullStyle
    /\ pc[c] = "thresh"
    /\ stats[c] # <<>>
    /\ over = (Head(stats[c]) \in breach[c])
    /\ stats' = [stats EXCEPT ![c] = Tail(@)]
    /\ IF over
         THEN insert_batch(c, "alerts", <<Head(stats[c]).rec>>, "thresh")
         ELSE UNCHANGED <<pc, ins, ncalls>>
    /\ UNCHANGED <<enabled, running, process, batch, age, line, exc, collected,
                   faults, conn, disk, phase,
                   returned>>
    /\ UNCHANGED <<parsed, breach, elsewhere>>

\* _check_thresholds returned; time.sleep(interval) begins.
monitor_loop_checked(c) ==
    /\ c \in PullStyle
    /\ pc[c] = "thresh"
    /\ stats[c] = <<>>
    /\ pc' = [pc EXCEPT ![c] = "sleep"]
    /\ UNCHANGED <<enabled, running, process, batch, age, line, exc, stats, ins,
                   ncalls, collected, faults, conn, disk, phase,
                   returned>>
    /\ UNCHANGED <<parsed, breach, elsewhere>>

\* time.sleep(interval) returns; the samples of the tick are gone.
monitor_loop_sleep(c) ==
    /\ c \in PullStyle
    /\ pc[c] = "sleep"
    /\ pc' = [pc EXCEPT ![c] = "test"]
    /\ breach' = [breach EXCEPT ![c] = {}]
    /\ UNCHANGED <<enabled, running, process, batch, age, line, exc, stats, ins,
                   ncalls, collected, faults, conn, disk, phase,
                   returned>>
    /\ UNCHANGED <<parsed, elsewhere>>

\* --------------------------------------------------------------- the caller

\* The thread that owns the collectors (AndroidMonitor.start / stop) calls one
\* method at a time: while it waits in a join it calls nothing else.
\* stop() may be called on a collector never started ("stopping0"), on a
\* started one ("stopping") and again on a stopped one ("stopping2"); start()
\* is called on a collector that is not started.
Stopping == {"stopping0", "stopping", "stopping2"}

CallerIdle == \A c \in Modules : phase[c] \notin Stopping

\* The caller starts a collector that was never started or has been stopped
\* (restarts are followed for a collector on its own).
Start(c) ==
    /\ c \in enabled
    /\ CallerIdle
    /\ phase[c] \in (IF Cardinality(enabled) = 1 THEN {"new", "stopped"}
                                                 ELSE {"new"})
    /\ start(c)
    /\ phase' = [phase EXCEPT ![c] = "started"]
    /\ UNCHANGED <<enabled, process, batch, age, stats, ins, ncalls,
                   collected, faults, conn, disk,
                   returned>>
    /\ UNCHANGED <<breach, elsewhere>>

\* The caller calls stop() on a collector, started or not.
Stop(c) ==
    /\ c \in enabled
    /\ CallerIdle
    /\ stop_signal(c)
    /\ phase' = [phase EXCEPT ![c] = CASE @ = "new" -> "stopping0"
                                        [] @ = "started" -> "stopping"
                                        [] @ = "stopped" -> "stopping2"]
    /\ UNCHANGED <<enabled, pc, batch, age, line, exc, stats, ins, ncalls,
                   collected, faults, conn, disk,
                   returned>>
    /\ UNCHANGED <<parsed, breach, elsewhere>>

\* stop() returns.
StopReturn(c) ==
    /\ phase[c] \in Stopping
    /\ stop_joined(c)
    /\ phase' = [phase EXCEPT ![c] = "stopped"]
    /\ UNCHANGED <<enabled, running, pc, process, batch, age, line, exc, stats,
                   ins, ncalls, collected, faults, conn, disk,
                   returned>>
    /\ UNCHANGED <<parsed, breach, elsewhere>>

\* ------------------------------------------------------------ specification

\* A step of the loop thread of a pull-style collector, or of any loop thread
\* inside insert_batch.
PollStep(c) ==
    \/ monitor_loop_test(c)
    \/ \E n \in StatCounts(c) :
           \E hot \in SUBSET ((collected + 1 .. collected + n) \X Range(Kinds(c))) :
               monitor_loop_collect(c, n, {[rec |-> h[1], kind |-> h[2]] : h \in hot})
    \/ monitor_loop_collect_fail(c)
    \/ \E over \in BOOLEAN : check_thresholds(c, over)
    \/ monitor_loop_checked(c)
    \/ monitor_loop_sleep(c)
    \/ executemany_row(c)
    \/ executemany_fail(c)
    \/ commit(c)
    \/ commit_fail(c)

\* A step of c's loop thread that needs nothing from the log source.
LoopStep(c) ==
    \/ monitor_loop_popen(c)
    \/ monitor_loop_popen_fail(c)
    \/ monitor_loop_eof(c)
    \/ PollStep(c)

\* What the log source does: it delivers a line, it exits, time passes.
SourceStep(c) ==
    \/ \E k \in LineKinds(c) : monitor_loop_readline(c, k)
    \/ source_exit(c)
    \/ tick(c)

Next ==
    \/ \E c \in Modules : Start(c)
    \/ \E c \in Modules : Stop(c)
    \/ \E c \in Modules : StopReturn(c)
    \/ \E c \in Modules : LoopStep(c)
    \/ \E c \in Modules : SourceStep(c)

Spec == Init /\ [][Next]_vars

\* Two collectors side by side.
SpecPair == InitPair /\ [][Next]_vars

\* Two collectors of an AndroidMonitor side by side, started and stopped one
\* by one through self.monitors ("direct": run() is not used), with the
\* budgets of the AndroidMonitor runs.
InitDuo ==
    /\ enabled \in PairConfigs
    /\ detailed = FALSE
    /\ orch = [NoOrch EXCEPT !.pc = "direct"]
    /\ Fresh

SpecDuo == InitDuo /\ [][Next]_vars

\* The scheduler runs every thread that can run: a loop thread takes its next
\* step and a stop() whose join can return does; the log source owes nothing.
LiveSpec ==
    /\ Spec
    /\ \A c \in Modules : WF_vars(LoopStep(c)) /\ WF_vars(StopReturn(c))

\* Pull-style collectors alone (one with a list of samples, one with a single
\* sample per tick), each on its own, with the scheduler running every thread
\* that can run.
PollModules == {"network", "battery"}

InitPoll ==
    /\ enabled \in {{c} : c \in PollModules}
    /\ detailed = FALSE
    /\ orch = NoOrch
    /\ Fresh

NextPoll ==
    \/ \E c \in PollModules : Start(c)
    \/ \E c \in PollModules : Stop(c)
    \/ \E c \in PollModules : StopReturn(c)
    \/ \E c \in PollModules : PollStep(c)

LivePoll ==
    /\ InitPoll
    /\ [][NextPoll]_vars
    /\ \A c \in PollModules : WF_vars(PollStep(c)) /\ WF_vars(StopReturn(c))

\* ------------------------------------------------------------ AndroidMonitor

\* self.monitors in iteration order.
IsEnabled(c) == c \in enabled
Monitors == SelectSeq(MonitorOrder, IsEnabled)

OrchConfigs == {{"logcat", "network"}}

\* AndroidMonitor.start(), one iteration: monitor.start() returns.
run_start(c) ==
    /\ orch.pc = "start"
    /\ orch.i <= Len(Monitors)
    /\ c = Monitors[orch.i]
    /\ start(c)
    /\ phase' = [phase EXCEPT ![c] = "started"]
    /\ orch' = [orch EXCEPT !.i = @ + 1]
    /\ UNCHANGED <<enabled, process, batch, age, stats, ins, ncalls,
                   collected, faults, conn, disk, returned, breach, detailed,
                   net, fs, apart>>

\* AndroidMonitor.start() that gives up at the first monitor.start() that
\* raises.
run_start_fail_abort(c) ==
    /\ orch.pc = "start"
    /\ orch.i <= Len(Monitors)
    /\ c = Monitors[orch.i]
    /\ faults < FaultBound
    /\ faults' = faults + 1
    /\ running' = [running EXCEPT ![c] = TRUE]
    /\ orch' = [orch EXCEPT !.i = Len(Monitors) + 1, !.failed = @ \cup {c}]
    /\ UNCHANGED <<enabled, pc, process, batch, age, line, exc, stats, ins,
                   ncalls, collected, conn, disk, phase, returned, parsed,
                   breach, detailed, net, fs, apart>>

\* AndroidMonitor.start(), one iteration: monitor.start() raises (Thread.start
\* cannot start a new thread, after running was set); the except clause logs
\* and the for loop goes on.
run_start_fail(c) ==
    /\ orch.pc = "start"
    /\ orch.i <= Len(Monitors)
    /\ c = Monitors[orch.i]
    /\ faults < FaultBound
    /\ faults' = faults + 1
    /\ running' = [running EXCEPT ![c] = TRUE]
    /\ orch' = [orch EXCEPT !.i = @ + 1, !.failed = @ \cup {c}]
    /\ UNCHANGED <<enabled, pc, process, batch, age, line, exc, stats, ins,
                   ncalls, collected, conn, disk, phase, returned, parsed,
                   breach, detailed, net, fs, apart>>

\* start() has returned: run() enters its try block and sleeps.
run_sleep ==
    /\ orch.pc = "start"
    /\ orch.i > Len(Monitors)
    /\ orch' = [orch EXCEPT !.pc = "sleep"]
    /\ UNCHANGED <<enabled, running, pc, process, batch, age, line, exc,
                   stats, ins, ncalls, collected, faults, conn, disk, phase,
                   returned, parsed, breach, detailed, net, fs, apart>>

\* SIGINT or SIGTERM arrives while run() is in start() or in its sleep loop:
\* _signal_handler runs on the main thread and calls self.stop().
signal_handler ==
    /\ orch.pc \in {"start", "sleep"}
    /\ orch.sig = "none"
    /\ orch' = [orch EXCEPT !.sig = orch.pc, !.by = "handler", !.pc = "stop",
                            !.i = 1, !.stops = @ + 1]
    /\ UNCHANGED <<enabled, running, pc, process, batch, age, line, exc,
                   stats, ins, ncalls, collected, faults, conn, disk, phase,
                   returned, parsed, breach, detailed, net, fs, apart>>

\* AndroidMonitor.stop(), one iteration: monitor.stop() is called and reaches
\* its join.
monitors_stop(c) ==
    /\ orch.pc = "stop"
    /\ orch.i <= Len(Monitors)
    /\ c = Monitors[orch.i]
    /\ stop_signal(c)
    /\ phase' = [phase EXCEPT ![c] = CASE @ = "new" -> "stopping0"
                                        [] @ = "started" -> "stopping"
                                        [] @ = "stopped" -> "stopping2"]
    /\ orch' = [orch EXCEPT !.pc = "join"]
    /\ UNCHANGED <<enabled, pc, batch, age, line, exc, stats, ins, ncalls,
                   collected, faults, conn, disk, returned, parsed, breach,
                   detailed, net, fs, apart>>

\* A monitor.stop() that returns without waiting for the loop thread.
monitors_stop_return_early(c) ==
    /\ orch.pc = "join"
    /\ c = Monitors[orch.i]
    /\ phase' = [phase EXCEPT ![c] = "stopped"]
    /\ orch' = [orch EXCEPT !.pc = "stop", !.i = @ + 1]
    /\ UNCHANGED <<enabled, running, pc, process, batch, age, line, exc,
                   stats, ins, ncalls, collected, faults, conn, disk,
                   returned, parsed, breach, detailed, net, fs, apart>>

\* monitor.stop() returns, or raises (joining a thread that was never started
\* raises RuntimeError) and the except clause logs: the for loop goes on.
monitors_stop_return(c) ==
    /\ orch.pc = "join"
    /\ c = Monitors[orch.i]
    /\ stop_joined(c)
    /\ phase' = [phase EXCEPT ![c] = "stopped"]
    /\ orch' = [orch EXCEPT !.pc = "stop", !.i = @ + 1]
    /\ UNCHANGED <<enabled, running, pc, process, batch, age, line, exc,
                   stats, ins, ncalls, collected, faults, conn, disk,
                   returned, parsed, breach, detailed, net, fs, apart>>

\* The end of AndroidMonitor.stop(): self.db.close() (uncommitted rows are
\* dropped), and what follows its return. In the handler sys.exit(0) raises
\* SystemExit on the main thread: raised inside run()'s try block it runs the
\* finally clause, which calls self.stop(); raised inside start(), which is
\* outside the try block, it ends the process. After the finally clause the
\* process ends.
db_close ==
    /\ orch.pc = "stop"
    /\ orch.i > Len(Monitors)
    /\ conn' = <<>>
    /\ orch' = IF orch.by = "handler" /\ orch.sig = "sleep"
                 THEN [orch EXCEPT !.closed = @ + 1, !.by = "finally",
                                   !.i = 1, !.stops = @ + 1]
                 ELSE [orch EXCEPT !.closed = @ + 1, !.pc = "exit"]
    /\ UNCHANGED <<enabled, running, pc, process, batch, age, line, exc,
                   stats, ins, ncalls, collected, faults, disk, phase,
                   returned, parsed, breach, detailed, net, fs, apart>>

\* A step of the main thread.
MainStep ==
    \/ \E c \in Modules : run_start(c)
    \/ \E c \in Modules : run_start_fail(c)
    \/ run_sleep
    \/ \E c \in Modules : monitors_stop(c)
    \/ \E c \in Modules : monitors_stop_return(c)
    \/ db_close

\* AndroidMonitor.run() with its collectors.
InitOrch ==
    /\ enabled \in OrchConfigs
    /\ detailed = FALSE
    /\ orch = [NoOrch EXCEPT !.pc = "start"]
    /\ Fresh

NextOrch ==
    \/ MainStep
    \/ signal_handler
    \/ \E c \in Modules : LoopStep(c)
    \/ \E c \in Modules : SourceStep(c)

SpecOrch == InitOrch /\ [][NextOrch]_vars

\* The scheduler runs every thread that can run, the main thread included;
\* the log source and the sender of the signal owe nothing.
LiveOrch ==
    /\ SpecOrch
    /\ WF_vars(MainStep)
    /\ \A c \in Modules : WF_vars(LoopStep(c))

\* ------------------------------------------------------------------- claims

\* The rows c has inserted on the connection, committed or not.
Inserted(c) == {r \in Range(conn) \cup Range(disk) : r.by = c}

\* The committed rows of the insert_batch call h.
Committed(h) == {r \in Range(disk) : r.by = h.by /\ r.call = h.call}

\* The records of a batch, whatever call carried them.
Recs(rows) == [i \in 1..Len(rows) |-> <<rows[i].tbl, rows[i].rec>>]

\* The calls of insert_batch that follow call h of the same collector at once:
\* returned ones and the one in progress.
NextCalls(h) ==
    {g.rows : g \in {x \in returned : x.by = h.by /\ x.call = h.call + 1}}
    \cup (IF pc[h.by] = "exec" /\ ncalls[h.by] = h.call + 1
            THEN {ins[h.by].rows} ELSE {})

IsRetry(h) ==
    \E g \in returned :
        g.by = h.by /\ g.call = h.call - 1 /\ ~g.ok /\ Recs(g.rows) = Recs(h.rows)

CollectorState(c) ==
    <<running[c], pc[c], process[c], batch[c], age[c], line[c], exc[c], stats[c],
      ins[c], ncalls[c]>>

\* C1: insert_batch is all-or-nothing: no row of a call that raised partway
\* through its batch is ever committed (by that call or by a later commit on
\* the shared connection), and every row of a call that returned is committed.
C1_AllOrNothing ==
    \A h \in returned :
        /\ h.ok => Committed(h) = Range(h.rows)
        /\ (~h.ok /\ h.done < Len(h.rows)) => Committed(h) = {}

\* C2: with several collectors writing on the shared connection, the committed
\* state holds all rows or no row of each batch: a batch whose insert_batch
\* call is still in progress is not committed in part by another writer, and a
\* call that returned has all its rows committed.
C2_BatchCommitBoundary ==
    /\ \A c \in Modules :
           pc[c] = "exec" =>
               Range(ins[c].rows) \cap Range(disk) \in {{}, Range(ins[c].rows)}
    /\ \A h \in returned : h.ok => Committed(h) = Range(h.rows)

\* C3: stop() on a push-style collector eventually returns, whether or not the
\* log source ever delivers another line or closes.
C3_StopReturns ==
    \A c \in PushStyle : (phase[c] \in Stopping) ~> (phase[c] = "stopped")

\* C4: once stop() has returned, the collector inserts no further row.
C4_NoAppendAfterStop ==
    [][\A c \in Modules : phase[c] = "stopped" => Inserted(c)' = Inserted(c)]_vars

\* A collector that stored rows was stopped while it could have collected more.
C4_Witness ==
    \E c \in Modules :
        phase[c] = "stopped" /\ Inserted(c) # {} /\ collected < RecordBound

\* C5: a store error raised by insert_batch never ends a collector's loop:
\* when a call the loop makes before stop(), other than the final flush on its
\* way out, fails, the loop thread is still alive after it.
C5_StoreErrorNotFatal ==
    [][\A c \in Modules :
          (/\ running[c]
           /\ ins[c].ret # "exit"
           /\ \E h \in returned' \ returned : h.by = c /\ ~h.ok)
              => Alive(c)']_vars

\* C6: a batch whose insert failed is retried once, on the collector's next
\* flush: the call that follows a first failure carries the same records, and
\* the call that follows a failed retry does not carry them again.
C6_RetriedOnce ==
    \A h \in returned :
        ~h.ok =>
            IF IsRetry(h)
              THEN \A rows \in NextCalls(h) : Recs(rows) # Recs(h.rows)
              ELSE \A rows \in NextCalls(h) : Recs(rows) = Recs(h.rows)

\* C7: a line that cannot be turned into a record (no structural match, or a
\* match whose fields are no valid date) is skipped and does not end the loop:
\* while stop() has not been called, the loop is back in readline.
C7_BadLineSkipped ==
    \A c \in PushStyle :
        (line[c] \in {"nomatch", "baddate"} /\ running[c]) =>
            (pc[c] = "read" /\ exc[c] # "parse")

\* C8: a collector whose log command could not be spawned remains stopped: its
\* running flag is false.
C8_FailedStartStaysStopped ==
    \A c \in PushStyle : exc[c] \in {"spawn", "unbound"} => ~running[c]

\* C9: start() on a stopped collector sets it running with a live loop; stop()
\* returns only when the loop has ended, with running cleared; and stop() on a
\* collector that is stopped or was never started changes neither the
\* collector nor the store and returns at once.
C9_Lifecycle ==
    [][\A c \in Modules :
          /\ (phase[c] \in {"new", "stopped"} /\ phase'[c] = "started") =>
                 (running'[c] /\ Alive(c)')
          /\ (phase[c] \in Stopping /\ phase'[c] = "stopped") =>
                 (~Alive(c) /\ ~running[c])
          /\ (phase[c] \in {"new", "stopped"} /\ phase'[c] \in Stopping) =>
                 /\ CollectorState(c)' = CollectorState(c)
                 /\ <<conn, disk>>' = <<conn, disk>>
                 /\ ~Alive(c)']_vars

\* stop() has been called again on a collector that ran, stored rows and was
\* stopped.
C9_Witness ==
    \E c \in Modules : phase[c] = "stopping2" /\ Inserted(c) # {}

\* C10: while a log-stream collector is running, a non-empty pending batch is
\* never older than the flush latency nor as long as the batch size.
C10_FlushBound ==
    \A c \in PushStyle :
        (running[c] /\ pc[c] = "read" /\ batch[c] # <<>>) =>
            (age[c] <= FlushLatency /\ Len(batch[c]) < LogcatFlushSize)

\* The committed records of c.
Stored(c) == {r.rec : r \in {x \in Range(disk) : x.by = c /\ x.tbl = TableOf(c)}}

\* C11: once stop() of a push-style collector has returned, every record its
\* loop had parsed and put in the pending batch is committed to the store.
C11_FlushedOnStop ==
    \A c \in PushStyle : phase[c] = "stopped" => parsed[c] \subseteq Stored(c)

\* The alert rows written for a sample of c.
AlertsFor(c, rec) == {r \in Inserted(c) : r.tbl = "alerts" /\ r.rec = rec}

\* C12: for every memory sample whose percent is above the threshold exactly
\* one alert row is written, in every configuration: once the tick is over
\* (and no store or collection fault was injected) each breaching sample of
\* the tick has its alert row.
C12_OneAlertPerBreach ==
    (pc["memory"] = "sleep" /\ faults = 0) =>
        \A k \in breach["memory"] : Cardinality(AlertsFor("memory", k.rec)) = 1

\* A step in which a tick of c raises: an insert_batch call fails or the
\* collection does.
FailureStep(c) ==
    \/ \E h \in returned' \ returned : h.by = c /\ ~h.ok
    \/ pc[c] = "collect" /\ faults' > faults

\* ------------------------------------- NetworkMonitor._check_thresholds

\* The samples of one interface: a timestamp and the two byte counters.
\* Counters are multiples of half the threshold volume of one second, the
\* sent counter possibly one byte more.
Quantum == (NetThreshold * MB) \div 2

Samples ==
    [t : 0..MaxTime,
     sent : {k * Quantum + d : k \in 0..MaxFactor, d \in {0, 1}},
     recv : {k * Quantum : k \in 0..MaxFactor}]

\* bytes_rate as the fraction <<bytes, seconds>>.
bytes_rate(stat, last) ==
    <<(stat.sent - last.sent) + (stat.recv - last.recv), stat.t - last.t>>

\* mb_rate > alert_network_threshold, for a rate over a positive time.
over_threshold_incl(rate) == rate[1] >= NetThreshold * MB * rate[2]

over_threshold(rate) == rate[1] > NetThreshold * MB * rate[2]

\* _check_thresholds on one sample of the interface.
net_check_thresholds(stat) ==
    LET known == net.last_stats # <<>>
        last == net.last_stats[1]
        timed == known /\ stat.t - last.t > 0
        rate == IF timed THEN <<bytes_rate(stat, last)>> ELSE <<>>
    IN  /\ net' = [last_stats |-> <<stat>>,
                   prev |-> net.last_stats,
                   rate |-> rate,
                   alerts |-> IF timed /\ over_threshold(rate[1])
                                THEN <<[module |-> "network",
                                        rate |-> rate[1]]>>
                                ELSE <<>>]
        /\ UNCHANGED <<enabled, running, pc, process, batch, age, line, exc,
                       stats, ins, ncalls, collected, faults, conn, disk,
                       phase, returned, parsed, breach, detailed, orch, fs, apart>>

InitNet ==
    /\ enabled = {"network"}
    /\ detailed = FALSE
    /\ orch = NoOrch
    /\ Fresh

NextNet == \E stat \in Samples : net_check_thresholds(stat)

SpecNet == InitNet /\ [][NextNet]_vars

\* The last call compared two samples of the interface.
NetPair == net.prev # <<>> /\ net.last_stats # <<>>

Decreased ==
    \/ net.last_stats[1].sent < net.prev[1].sent
    \/ net.last_stats[1].recv < net.prev[1].recv

\* C13: when a byte counter is lower than in the previous sample of the
\* interface, the pair is skipped: no rate is computed from it and no alert
\* is raised.
C13_DecreaseSkipped ==
    (NetPair /\ Decreased) => (net.rate = <<>> /\ net.alerts = <<>>)

Monotone ==
    /\ net.last_stats[1].sent >= net.prev[1].sent
    /\ net.last_stats[1].recv >= net.prev[1].recv
    /\ net.last_stats[1].t > net.prev[1].t

Paths == 1..MaxPaths

\* st_mtime values.
Mtimes == {1, 2}

\* What a scan can find: some of the paths, each with its mtime.
Snapshots == UNION {[S -> Mtimes] : S \in SUBSET Paths}

\* The keys of a snapshot in iteration order.
RECURSIVE Keys(_, _)
Keys(snap, p) ==
    IF p > MaxPaths THEN <<>>
    ELSE (IF p \in DOMAIN snap THEN <<p>> ELSE <<>>) \o Keys(snap, p + 1)

\* for path in keys: if test(path): events.append(...)
RECURSIVE Appended(_, _, _, _)
Appended(keys, old, new, type) ==
    IF keys = <<>> THEN <<>>
    ELSE LET path == Head(keys)
             hit == CASE type = "created" -> path \notin DOMAIN old
                      [] type = "modified" ->
                            path \in DOMAIN old /\ old[path] # new[path]
                      [] type = "deleted" -> path \notin DOMAIN new
         IN  (IF hit THEN <<[event_type |-> type, path |-> path]>> ELSE <<>>)
                \o Appended(Tail(keys), old, new, type)

\* The snapshot the call leaves in self.file_stats.
updated_stats_stale(old, current_stats) == old

updated_stats(old, current_stats) == current_stats

\* What one call of _detect_changes returns and leaves behind when
\* self.file_stats is old and the rescan finds current_stats.
changes(old, current_stats) ==
    [file_stats |-> updated_stats(old, current_stats),
     prev |-> old,
     scanned |-> current_stats,
     events |->
         Appended(Keys(current_stats, 1), old, current_stats, "created")
         \o Appended(Keys(current_stats, 1), old, current_stats, "modified")
         \o Appended(Keys(old, 1), old, current_stats, "deleted")]

\* _detect_changes when the rescan finds current_stats.
detect_changes(current_stats) ==
    /\ fs' = changes(fs.file_stats, current_stats)
    /\ UNCHANGED <<enabled, running, pc, process, batch, age, line, exc,
                   stats, ins, ncalls, collected, faults, conn, disk, phase,
                   returned, parsed, breach, detailed, orch, net, apart>>

InitFs ==
    /\ enabled = {"filesystem"}
    /\ detailed = FALSE
    /\ orch = NoOrch
    /\ Fresh

NextFs == \E current_stats \in Snapshots : detect_changes(current_stats)

SpecFs == InitFs /\ [][NextFs]_vars

\* The events of a type the last call returned for a path.
EventsOf(type, path) ==
    Cardinality({i \in 1..Len(fs.events) :
                    fs.events[i] = [event_type |-> type, path |-> path]})

\* C15: _detect_changes returns exactly one created event for each path of
\* the new snapshot that the previous one lacks, exactly one modified event
\* for each path of both whose mtime differs, exactly one deleted event for
\* each path of the previous snapshot that the new one lacks, nothing else,
\* and leaves the new snapshot as the stored one.
C15_Diff ==
    LET P == fs.prev
        N == fs.scanned
    IN  /\ \A path \in Paths :
              /\ EventsOf("created", path) =
                    (IF path \in DOMAIN N \ DOMAIN P THEN 1 ELSE 0)
              /\ EventsOf("modified", path) =
                    (IF path \in DOMAIN N \cap DOMAIN P /\ P[path] # N[path]
                       THEN 1 ELSE 0)
              /\ EventsOf("deleted", path) =
                    (IF path \in DOMAIN P \ DOMAIN N THEN 1 ELSE 0)
        /\ Len(fs.events) =
              Cardinality({path \in Paths :
                              \/ path \in DOMAIN N \ DOMAIN P
                              \/ path \in DOMAIN P \ DOMAIN N
                              \/ path \in DOMAIN N \cap DOMAIN P
                                    /\ P[path] # N[path]})
        /\ fs.file_stats = N

\* One call found a new path, a changed one and a missing one.
C15_Witness ==
    /\ \E path \in Paths : EventsOf("created", path) = 1
    /\ \E path \in Paths : EventsOf("modified", path) = 1
    /\ \E path \in Paths : EventsOf("deleted", path) = 1
    /\ fs.file_stats = fs.scanned
    /\ fs.file_stats # fs.prev

\* C16: when the process exits after a termination signal received during
\* run(), AndroidMonitor.stop has been invoked exactly once.
C16_StopOnce == orch.pc = "exit" => orch.stops = 1

\* C17: once AndroidMonitor.stop() has been entered it completes: every
\* collector's stop() is got through and the store is closed.
C17_ShutdownCompletes == (orch.stops > 0) ~> (orch.closed > 0)

\* C18: when AndroidMonitor.start() has returned, every enabled collector
\* whose start() did not raise has been started and is running, whichever
\* collectors failed before it.
C18_StartIndependent ==
    orch.pc = "sleep" =>
        \A c \in enabled \ orch.failed : phase[c] = "started" /\ running[c]

\* The first collector's start() raised and a later one is running.
C18_Witness ==
    /\ orch.pc = "sleep"
    /\ \E i \in 1..Len(Monitors) : \E j \in (i + 1)..Len(Monitors) :
           /\ Monitors[i] \in orch.failed
           /\ phase[Monitors[j]] = "started"
           /\ running[Monitors[j]]
           /\ Alive(Monitors[j])

\* C19: in a pull-style collector an exception during a tick does not end
\* the loop: the loop sleeps, then tests the flag and, if stop() was not
\* called, begins the next tick; the loop thread ends only after stop().
C19_PollLoopSurvives ==
    [][\A c \in PullStyle :
          /\ FailureStep(c) => pc'[c] = "sleep"
          /\ (pc[c] = "sleep" /\ pc'[c] # "sleep") => pc'[c] = "test"
          /\ (pc[c] = "test" /\ running[c] /\ pc'[c] # "test") => pc'[c] = "collect"
          /\ (Alive(c) /\ ~Alive(c)') => ~running[c]]_vars

\* A pull-style loop is in a tick after a tick that raised.
C19_Witness ==
    \E c \in PullStyle : exc[c] # "none" /\ running[c] /\ pc[c] = "exec"

\* C20: once stop() has cleared the flag, a pull-style loop begins no tick at
\* its next test of the flag (so at most the tick already begun runs on), it
\* exits, and stop() returns.
C20_StopObserved ==
    /\ [][\A c \in PullStyle :
             (~running[c] /\ pc[c] = "test") => pc'[c] \in {"test", "done"}]_vars
    /\ \A c \in PullStyle : (phase[c] \in Stopping) ~> (phase[c] = "stopped")

\* stop() was called while a tick was under way, and the tick runs on.
C20_Witness ==
    \E c \in PullStyle : phase[c] = "stopping" /\ pc[c] = "exec"

\* --------------------------------------- DatabaseManager.insert_batch

\* The columns of a table besides id, and the values a field can hold;
\* Null is what a column holds that no value was inserted for.
Columns == {"timestamp", "level", "status"}
FieldValues == {1, 2}
Null == 0

\* Records: dicts with a timestamp and any of the other fields.
Records ==
    UNION {[S -> FieldValues] : S \in {T \in SUBSET Columns : "timestamp" \in T}}

RECURSIVE SeqsUpTo(_, _)
SeqsUpTo(S, n) ==
    IF n = 0 THEN {<<>>}
    ELSE LET shorter == SeqsUpTo(S, n - 1)
         IN  shorter \cup {Append(s, x) : s \in {t \in shorter : Len(t) = n - 1},
                                          x \in S}

\* values = [[row.get(col) for col in columns] for row in data], as the row
\* the INSERT naming those columns leaves in the table.
inserted_row(columns, row) ==
    [col \in Columns |->
        IF col \in columns /\ col \in DOMAIN row THEN row[col] ELSE Null]

\* insert_batch(table, data) that succeeds: nothing for an empty batch,
\* otherwise one row per record with the columns of the first record.
db_insert_batch(data) ==
    /\ Len(db.rows) + Len(data) <= MaxTable
    /\ db' = [rows |-> IF data = <<>> THEN db.rows
                       ELSE db.rows \o [i \in 1..Len(data) |->
                                          inserted_row(DOMAIN data[1], data[i])],
              before |-> Len(db.rows),
              data |-> data]
    /\ UNCHANGED <<enabled, running, pc, process, batch, age, line, exc,
                   stats, ins, ncalls, collected, faults, conn, disk, phase,
                   returned, parsed, breach, detailed, orch, net, fs, qry,
                   thr, ring, log, app, prog, dup, fsloop, recent>>

InitDb ==
    /\ enabled = {"battery"}
    /\ detailed = FALSE
    /\ orch = NoOrch
    /\ Fresh

NextDb == \E data \in SeqsUpTo(Records, MaxBatch) : db_insert_batch(data)

SpecDb == InitDb /\ [][NextDb]_vars

\* C21: after insert_batch the table holds exactly one new row per record of
\* the batch, and every field of every record is read back with the value it
\* was inserted with, whatever fields the first record has.
C21_RoundTrip ==
    /\ Len(db.rows) = db.before + Len(db.data)
    /\ \A i \in 1..Len(db.data) : \A f \in DOMAIN db.data[i] :
           db.rows[db.before + i][f] = db.data[i][f]

\* ------------------------------------------------------------ MonitorQuery

\* Rows of a table as the queries see them: the timestamp and the two columns
\* the filters test; id is the rowid, the position in insertion order.
Timestamps == {1, 2, 3}
RowModules == {"network", "memory"}
Severities == {"WARNING", "INFO"}

\* The arguments of a query: 0 and "" stand for an argument not given.
QueryArgs ==
    [query : {"query_network_stats", "query_alerts"},
     start_time : {0, 2}, end_time : {0, 2},
     module : {"", "network"}, severity : {"", "WARNING"}]

\* The WHERE clause built from the arguments that are given
\* (query_network_stats has no severity argument and tests interface where
\* query_alerts tests module).
where_clause(a, r) ==
    /\ (a.start_time # 0) => r.timestamp >= a.start_time
    /\ (a.end_time # 0) => r.timestamp <= a.end_time
    /\ (a.module # "") => r.module = a.module
    /\ (a.query = "query_alerts" /\ a.severity # "") => r.severity = a.severity

\* ORDER BY timestamp [DESC]: r is put behind the rows that sort before it or
\* equal to it.
RECURSIVE order_insert(_, _, _)
order_insert(sorted, r, desc) ==
    IF sorted = <<>> THEN <<r>>
    ELSE IF (IF desc THEN Head(sorted).timestamp >= r.timestamp
                     ELSE Head(sorted).timestamp <= r.timestamp)
           THEN <<Head(sorted)>> \o order_insert(Tail(sorted), r, desc)
           ELSE <<r>> \o sorted

\* An ORDER BY that returns the rows as they lie in the table.
order_by_rowid(rows, desc) == rows

RECURSIVE order_by(_, _)
order_by(rows, desc) ==
    IF rows = <<>> THEN <<>>
    ELSE order_insert(order_by(SubSeq(rows, 1, Len(rows) - 1), desc),
                      rows[Len(rows)], desc)

\* A collector commits one more row, with any timestamp.
qry_insert(timestamp, module, severity) ==
    /\ Len(qry.rows) < MaxRows
    /\ qry' = [rows |-> Append(qry.rows, [id |-> Len(qry.rows) + 1,
                                           timestamp |-> timestamp,
                                           module |-> module,
                                           severity |-> severity]),
               args |-> <<>>,
               result |-> <<>>]
    /\ UNCHANGED <<enabled, running, pc, process, batch, age, line, exc,
                   stats, ins, ncalls, collected, faults, conn, disk, phase,
                   returned, parsed, breach, detailed, orch, net, fs, db,
                   thr, ring, log, app, prog, dup, fsloop, recent>>

\* query_network_stats (ORDER BY timestamp) or query_alerts (ORDER BY
\* timestamp DESC).
query(a) ==
    /\ qry' = [qry EXCEPT
                 !.args = <<a>>,
                 !.result = order_by(SelectSeq(qry.rows,
                                               LAMBDA r : where_clause(a, r)),
                                     a.query = "query_alerts")]
    /\ UNCHANGED <<enabled, running, pc, process, batch, age, line, exc,
                   stats, ins, ncalls, collected, faults, conn, disk, phase,
                   returned, parsed, breach, detailed, orch, net, fs, db,
                   thr, ring, log, app, prog, dup, fsloop, recent>>

InitQry ==
    /\ enabled = {"network", "memory"}
    /\ detailed = FALSE
    /\ orch = NoOrch
    /\ Fresh

NextQry ==
    \/ \E t \in Timestamps, m \in RowModules, s \in Severities :
           qry_insert(t, m, s)
    \/ \E a \in QueryArgs : query(a)

SpecQry == InitQry /\ [][NextQry]_vars

\* C22: whatever order the rows were inserted in, a query returns exactly the
\* rows that satisfy its filters, each once, in ascending timestamp order for
\* the time series and in descending timestamp order for the alert feed.
C22_SortedOnQuery ==
    qry.args # <<>> =>
        LET a == qry.args[1]
            res == qry.result
        IN  /\ {res[i] : i \in 1..Len(res)} =
                   {r \in Range(qry.rows) : where_clause(a, r)}
            /\ Len(res) = Cardinality({res[i] : i \in 1..Len(res)})
            /\ \A i \in 1..Len(res) - 1 :
                   IF a.query = "query_alerts"
                     THEN res[i].timestamp >= res[i + 1].timestamp
                     ELSE res[i].timestamp <= res[i + 1].timestamp

\* Rows inserted with falling timestamps by two modules, then a query that
\* returns both in rising order.
C22_Witness ==
    /\ qry.args # <<>>
    /\ qry.args[1].query = "query_network_stats"
    /\ Len(qry.result) >= 2
    /\ qry.result[1].id > qry.result[2].id
    /\ qry.result[1].module # qry.result[2].module
    /\ qry.result[1].timestamp < qry.result[2].timestamp

\* C23: the committed rows only grow: no step removes or changes a committed
\* row of any table, alerts included.
C23_AppendOnly ==
    [][/\ Len(disk') >= Len(disk)
       /\ \A i \in 1..Len(disk) : disk'[i] = disk[i]]_vars

\* Two insert_batch calls have committed, one of them an alert.
C23_Witness ==
    \E i, j \in 1..Len(disk) :
        /\ i < j
        /\ disk[i].call # disk[j].call
        /\ disk[j].tbl = "alerts"

\* C24: a call of stop() on one collector, from its first statement to its
\* return, changes nothing of any other collector: flag, loop position,
\* process, pending batch, pending samples and insert in progress.
C24_StopIsLocal ==
    [][\A a \in Modules :
           (phase'[a] # phase[a] /\ phase'[a] \in Stopping \cup {"stopped"}) =>
               \A b \in Modules \ {a} : CollectorState(b)' = CollectorState(b)]_vars

\* One collector has been stopped and the other, still running, is writing a
\* batch to the store.
C24_Witness ==
    \E a, b \in enabled :
        /\ a # b
        /\ phase[a] = "stopped"
        /\ phase[b] = "started"
        /\ running[b]
        /\ pc[b] = "exec"
        /\ ins[b].i >= 1

\* The rows of the store in rowid order: the committed ones, then those of
\* the open transaction.
RowOrder == disk \o conn

\* C25: the rows of one collector lie in its table in collection order: of
\* two stored records of a collector the one collected first has the lower
\* rowid, whether they went in one batch or in two.
C25_CollectionOrder ==
    \A i, j \in 1..Len(RowOrder) :
        (/\ i < j
         /\ RowOrder[i].by = RowOrder[j].by
         /\ RowOrder[i].tbl = RowOrder[j].tbl
         /\ RowOrder[i].tbl # "alerts") => RowOrder[i].rec < RowOrder[j].rec

\* Three records of one collector are committed, two from one batch and the
\* third from a later one.
C25_Witness ==
    \E i, j, k \in 1..Len(disk) :
        /\ i < j /\ j < k
        /\ disk[i].by = disk[j].by /\ disk[j].by = disk[k].by
        /\ disk[i].tbl = TableOf(disk[i].by)
        /\ disk[j].tbl = disk[i].tbl /\ disk[k].tbl = disk[i].tbl
        /\ disk[i].call = disk[j].call
        /\ disk[j].call < disk[k].call

\* C26: once AndroidMonitor.stop() has closed the store, no collector loop is
\* alive, none is inside insert_batch and none holds a pending batch.
C26_ClosedAfterStopped ==
    orch.closed > 0 =>
        \A c \in Modules : ~Alive(c) /\ pc[c] # "exec" /\ batch[c] = <<>>

\* The store was closed after a collector's final flush had committed its
\* pending batch.
C26_Witness ==
    /\ orch.closed > 0
    /\ \E h \in returned :
           h.ok /\ h.ret = "exit" /\ Range(h.rows) \subseteq Range(disk)

\* ------------- ProcessMonitor / BatteryMonitor._check_thresholds

\* alert_cpu_threshold, alert_memory_threshold and alert_battery_threshold,
\* in hundredths of a percent.
alert_cpu_threshold == 8000
alert_memory_threshold == 8500
alert_battery_threshold == 2000

\* The processes of a tick and the usage values around the two thresholds.
Procs == {[pid |-> 1, name |-> "init"], [pid |-> 2, name |-> "app"]}
CpuValues == {alert_cpu_threshold - 1, alert_cpu_threshold,
              alert_cpu_threshold + 1}
MemValues == {alert_memory_threshold, alert_memory_threshold + 1}

\* The stat dicts of _collect_process_stats.
ProcessStats ==
    {[pid |-> p.pid, name |-> p.name, cpu_percent |-> c, memory_percent |-> m] :
        p \in Procs, c \in CpuValues, m \in MemValues}

\* The stats dict of _collect_battery_stats: a timestamp, and the level when
\* dumpsys or psutil gave one.
Levels == {0, alert_battery_threshold - 1, alert_battery_threshold,
           alert_battery_threshold + 1}
BatteryStats ==
    {[timestamp |-> 1]} \cup {[timestamp |-> 1, level |-> l] : l \in Levels}

\* The format spec .1f on a value in hundredths (none of the values is a
\* tie): the value in tenths.
format_1f(v) == (v + 5) \div 10

\* _create_alert: the alert row; alert_type is not part of it.
thr_create_alert(module, alert_type, message, data) ==
    [module |-> module, severity |-> "WARNING", message |-> message,
     data |-> data]

\* A CPU test that also fires on the threshold itself.
cpu_over_incl(stat) == stat.cpu_percent >= alert_cpu_threshold

\* stat['cpu_percent'] > self.config.alert_cpu_threshold
cpu_over(stat) == stat.cpu_percent > alert_cpu_threshold

\* stat['memory_percent'] > self.config.alert_memory_threshold
memory_over(stat) == stat.memory_percent > alert_memory_threshold

\* The body of the for loop of ProcessMonitor._check_thresholds: the alerts
\* of one stat, the CPU one first.
process_stat_alerts(stat) ==
    (IF cpu_over(stat)
     THEN <<thr_create_alert("process", "HIGH_CPU_USAGE",
                <<"Process", stat.name, stat.pid,
                  format_1f(stat.cpu_percent), "CPU">>, stat)>>
     ELSE <<>>)
    \o
    (IF memory_over(stat)
     THEN <<thr_create_alert("process", "HIGH_MEMORY_USAGE",
                <<"Process", stat.name, stat.pid,
                  format_1f(stat.memory_percent), "memory">>, stat)>>
     ELSE <<>>)

\* ProcessMonitor._check_thresholds: the alert rows it inserts, in order.
RECURSIVE process_check_thresholds(_)
process_check_thresholds(sts) ==
    IF sts = <<>> THEN <<>>
    ELSE process_stat_alerts(Head(sts))
         \o process_check_thresholds(Tail(sts))

\* A battery test that also fires on the threshold itself.
low_battery_incl(bst) ==
    "level" \in DOMAIN bst /\ bst.level <= alert_battery_threshold

\* 'level' in stats and stats['level'] < self.config.alert_battery_threshold
low_battery(bst) ==
    "level" \in DOMAIN bst /\ bst.level < alert_battery_threshold

\* BatteryMonitor._check_thresholds: the alert rows it inserts.
battery_check_thresholds(bst) ==
    IF low_battery(bst)
    THEN <<thr_create_alert("battery", "LOW_BATTERY",
               <<"Battery level", bst.level>>, bst)>>
    ELSE <<>>

\* One tick of ProcessMonitor._monitor_loop with a non-empty stats list: the
\* stats are inserted, then checked.
process_tick(sts) ==
    /\ sts # <<>>
    /\ thr' = [module |-> "process", stats |-> sts, rows |-> sts,
               alerts |-> process_check_thresholds(sts)]
    /\ UNCHANGED <<enabled, running, pc, process, batch, age, line, exc,
                   stats, ins, ncalls, collected, faults, conn, disk, phase,
                   returned, parsed, breach, detailed, orch, net, fs, db,
                   qry, ring, log, app, prog, dup, fsloop, recent>>

\* One tick of BatteryMonitor._monitor_loop: a stats dict that is not empty
\* (it never is: it has the timestamp) is inserted, then checked.
battery_tick(bst) ==
    /\ thr' = [module |-> "battery", stats |-> <<bst>>,
               rows |-> IF DOMAIN bst # {} THEN <<bst>> ELSE <<>>,
               alerts |-> IF DOMAIN bst # {}
                          THEN battery_check_thresholds(bst) ELSE <<>>]
    /\ UNCHANGED <<enabled, running, pc, process, batch, age, line, exc,
                   stats, ins, ncalls, collected, faults, conn, disk, phase,
                   returned, parsed, breach, detailed, orch, net, fs, db,
                   qry, ring, log, app, prog, dup, fsloop, recent>>

InitThr ==
    /\ enabled = {"process", "battery"}
    /\ detailed = FALSE
    /\ orch = NoOrch
    /\ Fresh

NextThr ==
    \/ \E s \in SeqsUpTo(ProcessStats, MaxProcs) : process_tick(s)
    \/ \E s \in BatteryStats : battery_tick(s)

SpecThr == InitThr /\ [][NextThr]_vars

\* The CPU alerts among alert rows, and the stats over the CPU threshold.
IsCpuAlert(a) == a.message[Len(a.message)] = "CPU"
IsCpuHot(s) == s.cpu_percent > alert_cpu_threshold

PassThrough == {"filesystem", "apps", "logcat"}

\* C29: the filesystem, app and logcat collectors never write a row to the
\* alerts table: every row they insert is in their own table, and every
\* alert row has module network, process, memory or battery.
C29_PassThrough ==
    \A i \in 1..Len(RowOrder) :
        /\ RowOrder[i].by \in PassThrough =>
               RowOrder[i].tbl = TableOf(RowOrder[i].by)
        /\ RowOrder[i].tbl = "alerts" =>
               RowOrder[i].by \in {"network", "process", "memory", "battery"}

\* A pass-through collector has committed the rows of two of its calls.
C29_Witness ==
    \E i, j \in 1..Len(disk) :
        /\ disk[i].by \in PassThrough
        /\ disk[j].by = disk[i].by
        /\ disk[i].call < disk[j].call
        /\ \A k \in 1..Len(disk) : disk[k].tbl # "alerts"

\* ------------------------------------------- LogcatMonitor.buffer

\* The entries _parse_logcat_line can return; the same entry can come twice.
Entries == {"e1", "e2", "e3"}

\* An append that, on a full buffer, overwrites the newest entry.
deque_append_newest(buffer, maxlen, x) ==
    IF Len(buffer) >= maxlen
    THEN SubSeq(buffer, 1, maxlen - 1) \o <<x>>
    ELSE buffer \o <<x>>

\* deque(maxlen=...).append(x): on a full deque the item at the other end
\* is discarded.
deque_append(buffer, maxlen, x) ==
    IF maxlen = 0 THEN <<>>
    ELSE IF Len(buffer) >= maxlen THEN Tail(buffer) \o <<x>>
    ELSE buffer \o <<x>>

\* One iteration of the for loop with a parsed entry: it goes to the ring
\* buffer and to the batch, and the batch is flushed when it is full or old
\* enough.
ring_append(entry, flush) ==
    /\ Len(ring.parsed) < MaxParsed
    /\ LET filled == ring.batch \o <<entry>>
       IN  ring' = [buffer |-> deque_append(ring.buffer, logcat_buffer_size,
                                            entry),
                    batch |-> IF flush THEN <<>> ELSE filled,
                    parsed |-> ring.parsed \o <<entry>>,
                    stored |-> IF flush THEN ring.stored \o filled
                               ELSE ring.stored]
    /\ UNCHANGED <<enabled, running, pc, process, batch, age, line, exc,
                   stats, ins, ncalls, collected, faults, conn, disk, phase,
                   returned, parsed, breach, detailed, orch, net, fs, db,
                   qry, thr, log, app, prog, dup, fsloop, recent>>

\* The final flush after the for loop.
ring_final_flush ==
    /\ ring.batch # <<>>
    /\ ring' = [ring EXCEPT !.batch = <<>>,
                            !.stored = ring.stored \o ring.batch]
    /\ UNCHANGED <<enabled, running, pc, process, batch, age, line, exc,
                   stats, ins, ncalls, collected, faults, conn, disk, phase,
                   returned, parsed, breach, detailed, orch, net, fs, db,
                   qry, thr, log, app, prog, dup, fsloop, recent>>

InitRing ==
    /\ enabled = {"logcat"}
    /\ detailed = FALSE
    /\ orch = NoOrch
    /\ Fresh

NextRing ==
    \/ \E entry \in Entries, flush \in BOOLEAN : ring_append(entry, flush)
    \/ ring_final_flush

SpecRing == InitRing /\ [][NextRing]_vars

\* C30: the ring buffer never holds more than logcat_buffer_size entries; it
\* holds the most recent min(logcat_buffer_size, number parsed) entries in
\* collection order (a new entry on a full buffer evicts exactly the
\* oldest); and every parsed entry is still in the store or in the batch on
\* its way to it, evicted or not.
C30_RingBuffer ==
    LET n == Len(ring.parsed)
        k == IF n < logcat_buffer_size THEN n ELSE logcat_buffer_size
    IN  /\ Len(ring.buffer) <= logcat_buffer_size
        /\ ring.buffer = SubSeq(ring.parsed, n - k + 1, n)
        /\ ring.stored \o ring.batch = ring.parsed

\* Two entries more than the capacity were parsed and flushed: the two oldest
\* are gone from the buffer and are in the store.
C30_Witness ==
    /\ Len(ring.parsed) = logcat_buffer_size + 2
    /\ ring.stored = ring.parsed
    /\ ring.parsed[1] # ring.parsed[3]
    /\ ring.buffer = SubSeq(ring.parsed, 3, Len(ring.parsed))

\* ---------------------------------- LogcatMonitor._parse_logcat_line

\* The years datetime.now() can fall in, one of them a leap year, and the
\* year timestamps are counted from.
Years == {2023, 2024}
FirstYear == CHOOSE y \in Years : \A z \in Years : y <= z
IsLeap(y) == y % 4 = 0

DaysIn(y, mo) ==
    IF mo = 2 THEN (IF IsLeap(y) THEN 29 ELSE 28)
    ELSE IF mo \in {4, 6, 9, 11} THEN 30 ELSE 31

RECURSIVE DaysBefore(_, _)
DaysBefore(y, mo) ==
    IF mo = 1 THEN 0 ELSE DaysBefore(y, mo - 1) + DaysIn(y, mo - 1)

DaysOf(y) == IF IsLeap(y) THEN 366 ELSE 365

RECURSIVE DaysBeforeYear(_)
DaysBeforeYear(y) ==
    IF y = FirstYear THEN 0 ELSE DaysBeforeYear(y - 1) + DaysOf(y - 1)

SecondsPerDay == 24 * 60 * 60

\* The lines that match log_pattern, by their groups: the timestamp group
\* split in its six numbers, pid, tid, level, tag and message. A message is
\* the text behind the colon of the tag, leading blanks included.
LogLines ==
    [month : {2, 12}, day : {1, 29, 31}, hour : {0, 23}, minute : {59},
     second : {0, 59}, ms : {0, 7, 999}, pid : {1}, tid : {1},
     level : {"I", "E"}, tag : {"Tag"},
     message : {<<"m">>, <<" ", "m">>}]

\* The line of a matching line that log_pattern does not match.
NoMatch == [text |-> "nomatch"]

\* datetime(year, month, day, hour, minute, second) accepts its arguments.
valid_datetime(y, l) ==
    /\ l.month \in 1..12
    /\ l.day \in 1..DaysIn(y, l.month)
    /\ l.hour \in 0..23 /\ l.minute \in 0..59 /\ l.second \in 0..59

\* datetime(...).timestamp(): seconds since the start of FirstYear, local
\* time of a zone without clock changes.
posix_timestamp(y, mo, d, h, mi, s) ==
    (DaysBeforeYear(y) + DaysBefore(y, mo) + d - 1) * SecondsPerDay
        + h * 3600 + mi * 60 + s

\* datetime.fromtimestamp(ts): the fields of the local time.
fromtimestamp(ts) ==
    LET days == ts \div SecondsPerDay
        secs == ts % SecondsPerDay
        y == CHOOSE z \in Years :
                 DaysBeforeYear(z) <= days /\ days < DaysBeforeYear(z) + DaysOf(z)
        doy == days - DaysBeforeYear(y)
        mo == CHOOSE k \in 1..12 :
                  DaysBefore(y, k) <= doy /\ doy < DaysBefore(y, k) + DaysIn(y, k)
    IN  [year |-> y, month |-> mo, day |-> doy - DaysBefore(y, mo) + 1,
         hour |-> secs \div 3600, minute |-> (secs % 3600) \div 60,
         second |-> secs % 60, microsecond |-> 0]

\* The group (.*) behind ':\s*': the text without its leading blanks.
RECURSIVE lstrip(_)
lstrip(text) ==
    IF text # <<>> /\ Head(text) = " " THEN lstrip(Tail(text)) ELSE text

\* The first three numbers of the time string: [...][:3] drops the fourth,
\* the milliseconds.
time_numbers(l) == SubSeq(<<l.hour, l.minute, l.second, l.ms>>, 1, 3)

\* The dict _parse_logcat_line returns for a matching line in the year y.
log_entry(l, y) ==
    LET t == time_numbers(l)
    IN  [timestamp |-> posix_timestamp(y, l.month, l.day, t[1], t[2], t[3]),
         level |-> l.level, tag |-> l.tag, pid |-> l.pid,
         message |-> lstrip(l.message)]

\* _parse_logcat_line(line) with datetime.now() in the year y: None for a
\* line without a match, ValueError for a date the year does not have.
parse_logcat_line(l, y) ==
    /\ log' = [line |-> <<l>>, now |-> y,
               entry |-> IF l # NoMatch /\ valid_datetime(y, l)
                         THEN <<log_entry(l, y)>> ELSE <<>>,
               raised |-> l # NoMatch /\ ~valid_datetime(y, l)]
    /\ UNCHANGED <<enabled, running, pc, process, batch, age, line, exc,
                   stats, ins, ncalls, collected, faults, conn, disk, phase,
                   returned, parsed, breach, detailed, orch, net, fs, db,
                   qry, thr, ring, app, prog, dup, fsloop, recent>>

InitLog ==
    /\ enabled = {"logcat"}
    /\ detailed = FALSE
    /\ orch = NoOrch
    /\ Fresh

NextLog ==
    \E l \in LogLines \cup {NoMatch}, y \in Years : parse_logcat_line(l, y)

SpecLog == InitLog /\ [][NextLog]_vars

\* The fields of a line an entry re-serializes to: the timestamp's date and
\* time with its milliseconds, the level, the tag and the message.
entry_fields(e) ==
    LET t == fromtimestamp(e.timestamp)
    IN  [month |-> t.month, day |-> t.day, hour |-> t.hour,
         minute |-> t.minute, second |-> t.second,
         ms |-> t.microsecond \div 1000,
         level |-> e.level, tag |-> e.tag, message |-> e.message]

line_fields(l) ==
    [month |-> l.month, day |-> l.day, hour |-> l.hour, minute |-> l.minute,
     second |-> l.second, ms |-> l.ms,
     level |-> l.level, tag |-> l.tag, message |-> l.message]

\* C31: for every line matching log_pattern an entry is produced, and its
\* month, day, hour, minute, second, milliseconds, level, tag and message are
\* those of the line.
C31_FieldsPreserved ==
    (log.line # <<>> /\ log.line[1] # NoMatch) =>
        /\ log.entry # <<>>
        /\ entry_fields(log.entry[1]) = line_fields(log.line[1])

\* ---------------------------------------- AppMonitor._parse_app_event

\* The keys of the patterns dict in the opposite order.
patterns_reversed == <<"anr", "crash", "force_stop", "displayed", "start_activity">>

\* The keys of the patterns dict, in insertion order: the order the for loop
\* tries them in.
patterns == <<"start_activity", "displayed", "force_stop", "crash", "anr">>

\* A line, by the patterns re.search finds in it.
AppLines == SUBSET Range(patterns)

\* The event_type of the event returned for a pattern.
event_type_of(key) ==
    IF key = "displayed" THEN "activity_displayed" ELSE key

\* The event returned for the match of one pattern: group 1 of that match is
\* the package name.
app_event(key) ==
    [event_type |-> event_type_of(key), package_name |-> <<"group1", key>>]

\* _parse_app_event: the for loop over patterns.items() from the i-th key
\* on; the first match returns.
RECURSIVE parse_app_event_from(_, _)
parse_app_event_from(l, i) ==
    IF i > Len(patterns) THEN <<>>
    ELSE IF patterns[i] \in l THEN <<app_event(patterns[i])>>
    ELSE parse_app_event_from(l, i + 1)

parse_app_event(l) == parse_app_event_from(l, 1)

\* One iteration of the for loop of AppMonitor._monitor_loop: the line is
\* parsed; an event goes to the batch, which is flushed when full or old
\* enough.
app_readline(l, flush) ==
    /\ Len(app.stored) + Len(app.batch) < MaxAppEvents
    /\ LET event == parse_app_event(l)
           filled == app.batch \o event
           flushed == event # <<>> /\ flush
       IN  app' = [line |-> l, event |-> event,
                   batch |-> IF flushed THEN <<>> ELSE filled,
                   stored |-> IF flushed THEN app.stored \o filled
                              ELSE app.stored,
                   before |-> app.stored \o app.batch]
    /\ UNCHANGED <<enabled, running, pc, process, batch, age, line, exc,
                   stats, ins, ncalls, collected, faults, conn, disk, phase,
                   returned, parsed, breach, detailed, orch, net, fs, db,
                   qry, thr, ring, log, prog, dup, fsloop, recent>>

InitApp ==
    /\ enabled = {"apps"}
    /\ detailed = FALSE
    /\ orch = NoOrch
    /\ Fresh

NextApp == \E l \in AppLines, flush \in BOOLEAN : app_readline(l, flush)

SpecApp == InitApp /\ [][NextApp]_vars

\* The place of an event type in the order activity start, activity
\* displayed, force-stop, crash, ANR.
ClaimedRank(t) ==
    CASE t = "start_activity" -> 1
      [] t = "activity_displayed" -> 2
      [] t = "force_stop" -> 3
      [] t = "crash" -> 4
      [] t = "anr" -> 5

\* The event types of the patterns found in a line.
TypesIn(l) == {event_type_of(k) : k \in l}

\* C32: a line yields at most one event; a line in which several patterns
\* match yields the event of the earliest one in the order activity start,
\* activity displayed, force-stop, crash, ANR, with the package of that
\* match; a line in which none matches yields no event, and nothing is added
\* to the batch or the store for it.
C32_FirstPattern ==
    /\ Len(app.event) <= 1
    /\ app.stored \o app.batch = app.before \o app.event
    /\ app.line = {} => app.event = <<>>
    /\ app.line # {} =>
          /\ Len(app.event) = 1
          /\ app.event[1].event_type \in TypesIn(app.line)
          /\ \A t \in TypesIn(app.line) :
                 ClaimedRank(app.event[1].event_type) <= ClaimedRank(t)
          /\ \E k \in app.line :
                 /\ event_type_of(k) = app.event[1].event_type
                 /\ app.event[1].package_name = <<"group1", k>>

\* A line in which the crash and the ANR pattern both match gave a crash
\* event, with an earlier event still stored or pending.
C32_Witness ==
    /\ app.line = {"crash", "anr"}
    /\ Len(app.event) = 1
    /\ app.event[1].event_type = "crash"
    /\ app.before # <<>>

\* ------------------------------------ the child process of a push-style loop

\* C33: whenever the loop of a push-style collector has ended, after stop(),
\* after the end of the child's output or after an error (a failing Popen
\* included), no child process it started is left running; and when the loop
\* ended on the end of the child's output, with no failure injected, it
\* logged no error and every record it had parsed is committed.
C33_ProcessOwned ==
    \A c \in PushStyle :
        /\ pc[c] = "done" => process[c] # "alive"
        /\ (pc[c] = "done" /\ line[c] = "eof" /\ faults = 0) =>
               (exc[c] = "none" /\ parsed[c] \subseteq Stored(c))

\* A loop ended on the end of the child's output and its final flush
\* committed the pending batch; the child is terminated.
C33_Witness ==
    \E c \in PushStyle :
        /\ pc[c] = "done" /\ line[c] = "eof" /\ faults = 0
        /\ process[c] = "dead"
        /\ \E h \in returned :
               h.by = c /\ h.ok /\ h.ret = "exit" /\ Range(h.rows) \subseteq Range(disk)

\* ------------------------------------- BatteryMonitor without a level

\* C34: a tick of the battery collector for which no level could be obtained
\* stores no battery_stats row.
C34_SkippedWithoutLevel ==
    (thr.module = "battery" /\ "level" \notin DOMAIN thr.stats[1]) =>
        thr.rows = <<>>

\* ------------------------------------------------------------------ main()

\* MonitorConfig(): every enable flag of a module defaults to True.
MonitorConfig == Modules

\* The --preset values that touch enable flags of modules, and none.
Presets == {"none", "minimal", "performance"}
preset_disables(preset) ==
    CASE preset = "minimal" -> {"logcat", "filesystem"}
      [] preset = "performance" -> {"filesystem"}
      [] OTHER -> {}

\* The --config argument: no file, or a file that leaves out the network
\* module.
ConfigFiles == {<<>>, <<Modules \ {"network"}>>}

\* AndroidMonitor._load_config(config_path).
load_config(file) == IF file # <<>> THEN file[1] ELSE MonitorConfig

\* AndroidMonitor._init_monitors(): a collector for every module enabled in
\* self.config.
init_monitors(config) == {m \in Modules : m \in config}

\* Every variable but prog.
but_prog == <<enabled, running, pc, process, batch, age, line, exc, stats, ins,
              ncalls, collected, faults, conn, disk, phase, returned, parsed,
              breach, detailed, orch, net, fs, db, qry, thr, ring, log, app,
              dup,
              fsloop,
              recent>>

\* args = parser.parse_args()
main_parse_args(disable, preset, file) ==
    /\ prog.pc = "parse"
    /\ prog' = [prog EXCEPT !.pc = "config", !.disable = disable,
                            !.preset = preset, !.file = file]
    /\ UNCHANGED but_prog

\* config = MonitorConfig(), then the disable flags and the preset.
main_build_config ==
    /\ prog.pc = "config"
    /\ prog' = [prog EXCEPT !.pc = "load",
                            !.config = (MonitorConfig \ prog.disable)
                                           \ preset_disables(prog.preset)]
    /\ UNCHANGED but_prog

\* if args.config: config = AndroidMonitor(args.config).config
main_load_config ==
    /\ prog.pc = "load"
    /\ prog' = [prog EXCEPT !.pc = "construct",
                            !.config = IF prog.file # <<>>
                                       THEN load_config(prog.file) ELSE @]
    /\ UNCHANGED but_prog

\* monitor = AndroidMonitor(): __init__ loads the config of no path and
\* builds the monitors from it.
main_construct ==
    /\ prog.pc = "construct"
    /\ prog' = [prog EXCEPT !.pc = "assign",
                            !.monitor_config = load_config(<<>>),
                            !.monitors = init_monitors(load_config(<<>>))]
    /\ UNCHANGED but_prog

\* monitor.config = config
main_assign_config ==
    /\ prog.pc = "assign"
    /\ prog' = [prog EXCEPT !.pc = "run", !.monitor_config = prog.config]
    /\ UNCHANGED but_prog

\* monitor.run(): start() calls start() of every monitor in self.monitors.
main_run ==
    /\ prog.pc = "run"
    /\ prog' = [prog EXCEPT !.pc = "running", !.started = prog.monitors]
    /\ UNCHANGED but_prog

InitMain ==
    /\ enabled = Modules
    /\ detailed = FALSE
    /\ orch = NoOrch
    /\ Fresh

NextMain ==
    \/ \E disable \in SUBSET Modules, preset \in Presets, file \in ConfigFiles :
           main_parse_args(disable, preset, file)
    \/ main_build_config
    \/ main_load_config
    \/ main_construct
    \/ main_assign_config
    \/ main_run

SpecMain == InitMain /\ [][NextMain]_vars

\* C35: once main() has started the orchestrator, the monitors it holds and
\* has started are exactly the modules enabled in the configuration it runs
\* with, and no collector exists for a module named by a --disable flag.
C35_MonitorsFollowConfig ==
    prog.pc = "running" =>
        /\ prog.monitors = prog.monitor_config
        /\ prog.started = prog.monitor_config
        /\ prog.monitors \cap prog.disable = {}

\* ------------------------------------ _check_thresholds over several samples

\* C36: in a tick of the network or the process collector every sample is
\* evaluated: between two tests a step either leaves the tests still to be
\* made alone or makes the next one, and a step inside the insert of an
\* alert leaves them alone; none is dropped, also when the insert fails.
C36_EverySampleEvaluated ==
    [][\A c \in {"network", "process"} :
          /\ pc[c] = "thresh" =>
                 \/ stats'[c] = stats[c]
                 \/ stats[c] # <<>> /\ stats'[c] = Tail(stats[c])
          /\ (pc[c] = "exec" /\ ins[c].rows[1].tbl = "alerts") =>
                 stats'[c] = stats[c]]_vars

\* ----------------------------------------- start() on a running collector

\* Every variable but dup.
but_dup == <<enabled, running, pc, process, batch, age, line, exc, stats, ins,
             ncalls, collected, faults, conn, disk, phase, returned, parsed,
             breach, detailed, orch, net, fs, db, qry, thr, ring, log, app,
             prog,
              fsloop,
              recent>>

\* start(): running is set, a new thread is created, stored in self.thread
\* and started. Nothing is tested before.
dup_start ==
    /\ dup.caller # "join"
    /\ Len(dup.threads) < MaxStarts
    /\ dup' = [dup EXCEPT !.running = TRUE,
                          !.threads = Append(@, "test"),
                          !.thread = Len(dup.threads) + 1,
                          !.caller = "idle"]
    /\ UNCHANGED but_dup

\* stop(), up to the join.
dup_stop_signal ==
    /\ dup.caller = "idle"
    /\ dup' = [dup EXCEPT !.running = FALSE, !.caller = "join"]
    /\ UNCHANGED but_dup

\* stop(): if self.thread: self.thread.join() returns.
dup_stop_joined ==
    /\ dup.caller = "join"
    /\ dup.thread # 0 => dup.threads[dup.thread] = "done"
    /\ dup' = [dup EXCEPT !.caller = "stopped"]
    /\ UNCHANGED but_dup

\* while self.running: of the loop of thread i.
dup_loop_test(i) ==
    /\ dup.threads[i] = "test"
    /\ dup' = [dup EXCEPT !.threads[i] =
                              IF dup.running THEN "collect" ELSE "done"]
    /\ UNCHANGED but_dup

\* The tick of thread i: the samples are collected and inserted.
dup_loop_collect(i) ==
    /\ dup.threads[i] = "collect"
    /\ dup.writes < MaxWrites
    /\ dup' = [dup EXCEPT !.threads[i] = "sleep",
                          !.writes = @ + 1,
                          !.late = IF dup.caller = "stopped" THEN @ + 1 ELSE @]
    /\ UNCHANGED but_dup

\* time.sleep(interval) of thread i returns.
dup_loop_sleep(i) ==
    /\ dup.threads[i] = "sleep"
    /\ dup' = [dup EXCEPT !.threads[i] = "test"]
    /\ UNCHANGED but_dup

InitDup ==
    /\ enabled = {"network"}
    /\ detailed = FALSE
    /\ orch = NoOrch
    /\ Fresh

NextDup ==
    \/ dup_start
    \/ dup_stop_signal
    \/ dup_stop_joined
    \/ \E i \in 1..Len(dup.threads) : dup_loop_test(i)
    \/ \E i \in 1..Len(dup.threads) : dup_loop_collect(i)
    \/ \E i \in 1..Len(dup.threads) : dup_loop_sleep(i)

SpecDup == InitDup /\ [][NextDup]_vars

\* The loop threads that have not ended.
AliveThreads == {i \in 1..Len(dup.threads) : dup.threads[i] # "done"}

\* C37: at most one loop thread of the collector is alive; when stop() has
\* returned every loop thread ever launched has ended, and none has written
\* to the store after a stop() returned.
C37_OneLoop ==
    /\ Cardinality(AliveThreads) <= 1
    /\ dup.caller = "stopped" => AliveThreads = {}
    /\ dup.late = 0

\* ------------------------------------------- alerts and their samples

\* The rows of the samples of c that are committed before place i of the
\* store.
SamplesBefore(c, i) ==
    {disk[j].rec : j \in {k \in 1..(i - 1) : disk[k].by = c /\ disk[k].tbl = TableOf(c)}}

\* C38: an alert is written only after the sample that triggered it has been
\* committed: for every alert row, committed or still in the open
\* transaction, the row of its sample is committed, and before it; and a
\* tick whose sample insert failed has no alert row.
C38_AlertAfterSample ==
    /\ \A i \in 1..Len(disk) :
           disk[i].tbl = "alerts" => disk[i].rec \in SamplesBefore(disk[i].by, i)
    /\ \A i \in 1..Len(conn) :
           conn[i].tbl = "alerts" => conn[i].rec \in Stored(conn[i].by)
    /\ \A h \in returned :
           (~h.ok /\ h.rows[1].tbl # "alerts") =>
               \A r \in Range(disk) \cup Range(conn) :
                   (r.tbl = "alerts" /\ r.by = h.by) =>
                       r.rec \notin {x.rec : x \in Range(h.rows)}

\* An alert row is committed behind the row of its sample, in a run in which
\* an insert of samples had failed before.
C38_Witness ==
    /\ \E i \in 1..Len(disk) :
           disk[i].tbl = "alerts" /\ disk[i].rec \in SamplesBefore(disk[i].by, i)
    /\ \E h \in returned : ~h.ok /\ h.rows[1].tbl # "alerts"

\* -------------------------------------- FilesystemMonitor._monitor_loop

\* The variables one iteration of the filesystem loop leaves alone.
but_fsloop == <<enabled, running, pc, process, batch, age, line, exc, stats,
                ins, ncalls, collected, faults, conn, disk, phase, returned,
                parsed, breach, detailed, orch, net, db, qry, thr, ring, log,
                app, prog, dup, recent>>

\* One iteration in which _detect_changes returns no event: insert_batch is
\* not called.
fs_loop_quiet(current_stats) ==
    /\ changes(fs.file_stats, current_stats).events = <<>>
    /\ fs' = changes(fs.file_stats, current_stats)
    /\ fsloop' = [called |-> FALSE, done |-> 0, raised |-> FALSE]
    /\ UNCHANGED but_fsloop

\* One iteration in which the events are inserted and committed.
fs_loop_insert(current_stats) ==
    /\ changes(fs.file_stats, current_stats).events # <<>>
    /\ fs' = changes(fs.file_stats, current_stats)
    /\ fsloop' = [called |-> TRUE, done |-> Len(fs'.events),
                  raised |-> FALSE]
    /\ UNCHANGED but_fsloop

\* One iteration in which insert_batch raises after done rows: the except
\* clause logs the error and sleeps, and the loop goes on.
fs_loop_insert_raises(current_stats, done) ==
    /\ changes(fs.file_stats, current_stats).events # <<>>
    /\ done < Len(changes(fs.file_stats, current_stats).events)
    /\ fs' = changes(fs.file_stats, current_stats)
    /\ fsloop' = [called |-> TRUE, done |-> done, raised |-> TRUE]
    /\ UNCHANGED but_fsloop

InitFsLoop ==
    /\ enabled = {"filesystem"}
    /\ detailed = FALSE
    /\ orch = NoOrch
    /\ Fresh

NextFsLoop ==
    \/ \E current_stats \in Snapshots : fs_loop_quiet(current_stats)
    \/ \E current_stats \in Snapshots : fs_loop_insert(current_stats)
    \/ \E current_stats \in Snapshots, done \in 0..(MaxPaths - 1) :
          fs_loop_insert_raises(current_stats, done)

SpecFsLoop == InitFsLoop /\ [][NextFsLoop]_vars

\* C39: after a tick whose insert failed, the next tick over the same files
\* detects the tick's changes again: the events are stored or the previous
\* snapshot is kept.
C39_ChangeNotLost ==
    fsloop.raised =>
        changes(fs.file_stats, fs.scanned).events = fs.events

\* -------------------------------------- LogcatMonitor.get_recent_logs

\* lst[lo:] of a Python list: a negative bound counts from the end and is
\* clipped at the front, a bound past the end gives the empty list.
slice_from(lst, lo) ==
    LET n == Len(lst)
        from == IF lo < 0
                  THEN (IF n + lo < 0 THEN 0 ELSE n + lo)
                  ELSE (IF lo > n THEN n ELSE lo)
    IN  SubSeq(lst, from + 1, n)

\* get_recent_logs(count): list(self.buffer)[-count:].
get_recent_logs(count) ==
    /\ recent' = [called |-> TRUE, count |-> count, buffer |-> ring.buffer,
                  result |-> slice_from(ring.buffer, 0 - count)]
    /\ UNCHANGED <<enabled, running, pc, process, batch, age, line, exc,
                   stats, ins, ncalls, collected, faults, conn, disk, phase,
                   returned, parsed, breach, detailed, orch, net, fs, db,
                   qry, thr, ring, log, app, prog, dup, fsloop>>

InitRecent ==
    /\ enabled = {"logcat"}
    /\ detailed = FALSE
    /\ orch = NoOrch
    /\ Fresh

NextRecent ==
    \/ \E entry \in Entries, flush \in BOOLEAN : ring_append(entry, flush)
    \/ ring_final_flush
    \/ \E count \in 0..MaxCount : get_recent_logs(count)

SpecRecent == InitRecent /\ [][NextRecent]_vars

\* C40: get_recent_logs(count) returns at most count entries for every
\* count >= 0, none for count = 0, and what it returns are the most recently
\* buffered entries in collection order.
C40_AtMostCount ==
    recent.called =>
        LET n == Len(recent.buffer)
            k == Len(recent.result)
        IN  /\ k <= recent.count
            /\ recent.count = 0 => recent.result = <<>>
            /\ recent.result = SubSeq(recent.buffer, n - k + 1, n)

====
